---- MODULE Spec2Model ----
(***************************************************************************)
(* A model of the qq_render compositor-graph generator.                    *)
(*                                                                         *)
(* State: the scene (view layers, toggles, engine, camera, file path), its  *)
(* compositor node tree (nodes, links), the window (active view layer, the *)
(* open confirmation popup) and the files on disk.  Operations: the        *)
(* operators of the add-on, each modelled as one atomic step, as the host  *)
(* runs an operator to completion on a button press.                       *)
(*                                                                         *)
(* Spec runs the node generator, SpecLayers and SpecDistinctLayers the     *)
(* view layer list, SpecRender the render and camera export buttons and    *)
(* SpecPaths the node generator over many project and layer names.         *)
(*                                                                         *)
(* Strings that the code takes apart (project names, file paths, base      *)
(* paths) are sequences of pieces, a piece being a one-character string;   *)
(* strings it only compares or joins (node names, pass names, layer names) *)
(* are TLA+ strings.  A layer name formatted into a path is one piece of   *)
(* it, and so is a character outside ASCII, written by its code point.     *)
(* Socket indices are 0-based as in the code; sequence positions are       *)
(* 1-based, so socket i of a node is element i+1 of its socket sequence.   *)
(***************************************************************************)
EXTENDS Integers, Sequences, FiniteSets, TLC

VARIABLES
    core_constants,         \* what core/constants.py binds SKIP_PASSES, DENOISE_PASSES, INVERT_Y_PASSES to
    view_layers,            \* scene.view_layers, in scene order
    engine,                 \* scene.render.engine
    qq_render_make_y_up,    \* scene toggle "Make Y Up"
    qq_render_clear_nodes,  \* scene toggle "Clear Nodes"
    camera,                 \* scene.camera: has (is there one) and its background_images
    filepath,               \* bpy.data.filepath, a sequence of characters
    use_nodes,              \* scene.use_nodes
    nodes,                  \* scene.node_tree.nodes, in creation order
    links,                  \* scene.node_tree.links
    node_groups,            \* bpy.data.node_groups, in creation order
    op,                     \* the operator that ran last
    result,                 \* its return value
    found,                  \* how many nodes the tree had when the last generate_nodes began
    kept,                   \* how many of them it kept
    active,                 \* context.window.view_layer, as a position in view_layers
    self_layer_name,        \* the layer_name property of the last move operator
    initialized,            \* did the last operator log "Initialized sort orders"
    view_layer_clipboard,   \* the module's clipboard of view layer settings
    qq_render_update_paths, \* scene toggle "Update Output Paths"
    qq_render_export_camera,\* scene toggle "Export Camera"
    disk,                   \* the files and image sequences that exist on disk
    qq_confirm_dialog,      \* window_manager.qq_confirm_dialog
    popup,                  \* bl_idname of the operator whose dialog is open, "" for none
    renders,                \* animation renders started so far
    qq_render_export_path,  \* window_manager.qq_render_export_path
    camera_path,            \* the camera export path check_and_render tested last, <<>> for none
    export_path,            \* the path the Alembic exporter wrote to last, <<>> for none
    host_calls              \* the operators of the host that a dialog called by idname, in order

vars == <<core_constants, view_layers, engine, qq_render_make_y_up, qq_render_clear_nodes, camera,
          filepath, use_nodes, nodes, links, node_groups, op, result, found, kept,
          active, self_layer_name, initialized, view_layer_clipboard, qq_render_update_paths, qq_render_export_camera,
          disk, qq_confirm_dialog, popup, renders, qq_render_export_path, camera_path, export_path, host_calls>>

\* the window and the view layer list
layer_vars == <<active, self_layer_name, initialized, view_layer_clipboard>>

\* the render and export buttons
render_vars == <<qq_render_update_paths, qq_render_export_camera, disk, qq_confirm_dialog, popup,
                 renders, qq_render_export_path, camera_path, export_path, host_calls>>

\* the compositor tree
tree_vars == <<use_nodes, nodes, links, node_groups, found, kept>>

scene_vars == <<core_constants, view_layers, engine, qq_render_make_y_up, qq_render_clear_nodes, camera, filepath>>

(***************************************************************************)
(* Bounds                                                                  *)
(***************************************************************************)
MaxLayers == 2      \* view layers in a scene
MaxOrder == 1       \* largest initial qq_render_sort_order
MaxExisting == 2    \* nodes (and node groups) already there when generate_nodes may still run

(***************************************************************************)
(* Sequence helpers                                                        *)
(***************************************************************************)
Min(S) == CHOOSE x \in S : \A y \in S : x <= y

Max2(a, b) == IF a >= b THEN a ELSE b

RemoveAt(s, i) == SubSeq(s, 1, i - 1) \o SubSeq(s, i + 1, Len(s))

RECURSIVE Join(_)
Join(cs) == IF cs = <<>> THEN "" ELSE Head(cs) \o Join(Tail(cs))

\* list.sort(key=...) on a sequence of <<item, key>> pairs: stable, ascending by key.
\* InsertPair puts x after every element whose key is not greater.
RECURSIVE InsertPair(_, _)
InsertPair(s, x) ==
    IF s = <<>> THEN <<x>>
    ELSE IF s[Len(s)][2] <= x[2] THEN Append(s, x)
    ELSE Append(InsertPair(SubSeq(s, 1, Len(s) - 1), x), s[Len(s)])

RECURSIVE SortPairs(_)
SortPairs(s) ==
    IF s = <<>> THEN <<>>
    ELSE InsertPair(SortPairs(SubSeq(s, 1, Len(s) - 1)), s[Len(s)])

(***************************************************************************)
(* core/relative_path.py                                                   *)
(***************************************************************************)
\* the decimal digits outside ASCII (Unicode category Nd), by code point;
\* "U+0663" is ARABIC-INDIC DIGIT THREE
UnicodeDigits ==
    {"U+0660", "U+0661", "U+0662", "U+0663", "U+0664", "U+0665", "U+0666", "U+0667", "U+0668", "U+0669",
     "U+06F0", "U+06F1", "U+06F2", "U+06F3", "U+06F4", "U+06F5", "U+06F6", "U+06F7", "U+06F8", "U+06F9",
     "U+07C0", "U+07C1", "U+07C2", "U+07C3", "U+07C4", "U+07C5", "U+07C6", "U+07C7", "U+07C8", "U+07C9",
     "U+0966", "U+0967", "U+0968", "U+0969", "U+096A", "U+096B", "U+096C", "U+096D", "U+096E", "U+096F",
     "U+09E6", "U+09E7", "U+09E8", "U+09E9", "U+09EA", "U+09EB", "U+09EC", "U+09ED", "U+09EE", "U+09EF",
     "U+0A66", "U+0A67", "U+0A68", "U+0A69", "U+0A6A", "U+0A6B", "U+0A6C", "U+0A6D", "U+0A6E", "U+0A6F",
     "U+0AE6", "U+0AE7", "U+0AE8", "U+0AE9", "U+0AEA", "U+0AEB", "U+0AEC", "U+0AED", "U+0AEE", "U+0AEF",
     "U+0B66", "U+0B67", "U+0B68", "U+0B69", "U+0B6A", "U+0B6B", "U+0B6C", "U+0B6D", "U+0B6E", "U+0B6F",
     "U+0BE6", "U+0BE7", "U+0BE8", "U+0BE9", "U+0BEA", "U+0BEB", "U+0BEC", "U+0BED", "U+0BEE", "U+0BEF",
     "U+0C66", "U+0C67", "U+0C68", "U+0C69", "U+0C6A", "U+0C6B", "U+0C6C", "U+0C6D", "U+0C6E", "U+0C6F",
     "U+0CE6", "U+0CE7", "U+0CE8", "U+0CE9", "U+0CEA", "U+0CEB", "U+0CEC", "U+0CED", "U+0CEE", "U+0CEF",
     "U+0D66", "U+0D67", "U+0D68", "U+0D69", "U+0D6A", "U+0D6B", "U+0D6C", "U+0D6D", "U+0D6E", "U+0D6F",
     "U+0DE6", "U+0DE7", "U+0DE8", "U+0DE9", "U+0DEA", "U+0DEB", "U+0DEC", "U+0DED", "U+0DEE", "U+0DEF",
     "U+0E50", "U+0E51", "U+0E52", "U+0E53", "U+0E54", "U+0E55", "U+0E56", "U+0E57", "U+0E58", "U+0E59",
     "U+0ED0", "U+0ED1", "U+0ED2", "U+0ED3", "U+0ED4", "U+0ED5", "U+0ED6", "U+0ED7", "U+0ED8", "U+0ED9",
     "U+0F20", "U+0F21", "U+0F22", "U+0F23", "U+0F24", "U+0F25", "U+0F26", "U+0F27", "U+0F28", "U+0F29",
     "U+1040", "U+1041", "U+1042", "U+1043", "U+1044", "U+1045", "U+1046", "U+1047", "U+1048", "U+1049",
     "U+1090", "U+1091", "U+1092", "U+1093", "U+1094", "U+1095", "U+1096", "U+1097", "U+1098", "U+1099",
     "U+17E0", "U+17E1", "U+17E2", "U+17E3", "U+17E4", "U+17E5", "U+17E6", "U+17E7", "U+17E8", "U+17E9",
     "U+1810", "U+1811", "U+1812", "U+1813", "U+1814", "U+1815", "U+1816", "U+1817", "U+1818", "U+1819",
     "U+1946", "U+1947", "U+1948", "U+1949", "U+194A", "U+194B", "U+194C", "U+194D", "U+194E", "U+194F",
     "U+19D0", "U+19D1", "U+19D2", "U+19D3", "U+19D4", "U+19D5", "U+19D6", "U+19D7", "U+19D8", "U+19D9",
     "U+1A80", "U+1A81", "U+1A82", "U+1A83", "U+1A84", "U+1A85", "U+1A86", "U+1A87", "U+1A88", "U+1A89",
     "U+1A90", "U+1A91", "U+1A92", "U+1A93", "U+1A94", "U+1A95", "U+1A96", "U+1A97", "U+1A98", "U+1A99",
     "U+1B50", "U+1B51", "U+1B52", "U+1B53", "U+1B54", "U+1B55", "U+1B56", "U+1B57", "U+1B58", "U+1B59",
     "U+1BB0", "U+1BB1", "U+1BB2", "U+1BB3", "U+1BB4", "U+1BB5", "U+1BB6", "U+1BB7", "U+1BB8", "U+1BB9",
     "U+1C40", "U+1C41", "U+1C42", "U+1C43", "U+1C44", "U+1C45", "U+1C46", "U+1C47", "U+1C48", "U+1C49",
     "U+1C50", "U+1C51", "U+1C52", "U+1C53", "U+1C54", "U+1C55", "U+1C56", "U+1C57", "U+1C58", "U+1C59",
     "U+A620", "U+A621", "U+A622", "U+A623", "U+A624", "U+A625", "U+A626", "U+A627", "U+A628", "U+A629",
     "U+A8D0", "U+A8D1", "U+A8D2", "U+A8D3", "U+A8D4", "U+A8D5", "U+A8D6", "U+A8D7", "U+A8D8", "U+A8D9",
     "U+A900", "U+A901", "U+A902", "U+A903", "U+A904", "U+A905", "U+A906", "U+A907", "U+A908", "U+A909",
     "U+A9D0", "U+A9D1", "U+A9D2", "U+A9D3", "U+A9D4", "U+A9D5", "U+A9D6", "U+A9D7", "U+A9D8", "U+A9D9",
     "U+A9F0", "U+A9F1", "U+A9F2", "U+A9F3", "U+A9F4", "U+A9F5", "U+A9F6", "U+A9F7", "U+A9F8", "U+A9F9",
     "U+AA50", "U+AA51", "U+AA52", "U+AA53", "U+AA54", "U+AA55", "U+AA56", "U+AA57", "U+AA58", "U+AA59",
     "U+ABF0", "U+ABF1", "U+ABF2", "U+ABF3", "U+ABF4", "U+ABF5", "U+ABF6", "U+ABF7", "U+ABF8", "U+ABF9",
     "U+FF10", "U+FF11", "U+FF12", "U+FF13", "U+FF14", "U+FF15", "U+FF16", "U+FF17", "U+FF18", "U+FF19",
     "U+104A0", "U+104A1", "U+104A2", "U+104A3", "U+104A4", "U+104A5", "U+104A6", "U+104A7", "U+104A8", "U+104A9",
     "U+10D30", "U+10D31", "U+10D32", "U+10D33", "U+10D34", "U+10D35", "U+10D36", "U+10D37", "U+10D38", "U+10D39",
     "U+11066", "U+11067", "U+11068", "U+11069", "U+1106A", "U+1106B", "U+1106C", "U+1106D", "U+1106E", "U+1106F",
     "U+110F0", "U+110F1", "U+110F2", "U+110F3", "U+110F4", "U+110F5", "U+110F6", "U+110F7", "U+110F8", "U+110F9",
     "U+11136", "U+11137", "U+11138", "U+11139", "U+1113A", "U+1113B", "U+1113C", "U+1113D", "U+1113E", "U+1113F",
     "U+111D0", "U+111D1", "U+111D2", "U+111D3", "U+111D4", "U+111D5", "U+111D6", "U+111D7", "U+111D8", "U+111D9",
     "U+112F0", "U+112F1", "U+112F2", "U+112F3", "U+112F4", "U+112F5", "U+112F6", "U+112F7", "U+112F8", "U+112F9",
     "U+11450", "U+11451", "U+11452", "U+11453", "U+11454", "U+11455", "U+11456", "U+11457", "U+11458", "U+11459",
     "U+114D0", "U+114D1", "U+114D2", "U+114D3", "U+114D4", "U+114D5", "U+114D6", "U+114D7", "U+114D8", "U+114D9",
     "U+11650", "U+11651", "U+11652", "U+11653", "U+11654", "U+11655", "U+11656", "U+11657", "U+11658", "U+11659",
     "U+116C0", "U+116C1", "U+116C2", "U+116C3", "U+116C4", "U+116C5", "U+116C6", "U+116C7", "U+116C8", "U+116C9",
     "U+11730", "U+11731", "U+11732", "U+11733", "U+11734", "U+11735", "U+11736", "U+11737", "U+11738", "U+11739",
     "U+118E0", "U+118E1", "U+118E2", "U+118E3", "U+118E4", "U+118E5", "U+118E6", "U+118E7", "U+118E8", "U+118E9",
     "U+11950", "U+11951", "U+11952", "U+11953", "U+11954", "U+11955", "U+11956", "U+11957", "U+11958", "U+11959",
     "U+11C50", "U+11C51", "U+11C52", "U+11C53", "U+11C54", "U+11C55", "U+11C56", "U+11C57", "U+11C58", "U+11C59",
     "U+11D50", "U+11D51", "U+11D52", "U+11D53", "U+11D54", "U+11D55", "U+11D56", "U+11D57", "U+11D58", "U+11D59",
     "U+11DA0", "U+11DA1", "U+11DA2", "U+11DA3", "U+11DA4", "U+11DA5", "U+11DA6", "U+11DA7", "U+11DA8", "U+11DA9",
     "U+16A60", "U+16A61", "U+16A62", "U+16A63", "U+16A64", "U+16A65", "U+16A66", "U+16A67", "U+16A68", "U+16A69",
     "U+16AC0", "U+16AC1", "U+16AC2", "U+16AC3", "U+16AC4", "U+16AC5", "U+16AC6", "U+16AC7", "U+16AC8", "U+16AC9",
     "U+16B50", "U+16B51", "U+16B52", "U+16B53", "U+16B54", "U+16B55", "U+16B56", "U+16B57", "U+16B58", "U+16B59",
     "U+1D7CE", "U+1D7CF", "U+1D7D0", "U+1D7D1", "U+1D7D2", "U+1D7D3", "U+1D7D4", "U+1D7D5", "U+1D7D6", "U+1D7D7",
     "U+1D7D8", "U+1D7D9", "U+1D7DA", "U+1D7DB", "U+1D7DC", "U+1D7DD", "U+1D7DE", "U+1D7DF", "U+1D7E0", "U+1D7E1",
     "U+1D7E2", "U+1D7E3", "U+1D7E4", "U+1D7E5", "U+1D7E6", "U+1D7E7", "U+1D7E8", "U+1D7E9", "U+1D7EA", "U+1D7EB",
     "U+1D7EC", "U+1D7ED", "U+1D7EE", "U+1D7EF", "U+1D7F0", "U+1D7F1", "U+1D7F2", "U+1D7F3", "U+1D7F4", "U+1D7F5",
     "U+1D7F6", "U+1D7F7", "U+1D7F8", "U+1D7F9", "U+1D7FA", "U+1D7FB", "U+1D7FC", "U+1D7FD", "U+1D7FE", "U+1D7FF",
     "U+1E140", "U+1E141", "U+1E142", "U+1E143", "U+1E144", "U+1E145", "U+1E146", "U+1E147", "U+1E148", "U+1E149",
     "U+1E2F0", "U+1E2F1", "U+1E2F2", "U+1E2F3", "U+1E2F4", "U+1E2F5", "U+1E2F6", "U+1E2F7", "U+1E2F8", "U+1E2F9",
     "U+1E950", "U+1E951", "U+1E952", "U+1E953", "U+1E954", "U+1E955", "U+1E956", "U+1E957", "U+1E958", "U+1E959",
     "U+1FBF0", "U+1FBF1", "U+1FBF2", "U+1FBF3", "U+1FBF4", "U+1FBF5", "U+1FBF6", "U+1FBF7", "U+1FBF8", "U+1FBF9"}

\* what \d matches: the pattern is compiled without re.ASCII, so every
\* Unicode decimal digit is one
Digits == {"0", "1", "2", "3", "4", "5", "6", "7", "8", "9"} \cup UnicodeDigits

\* number of digits of cs starting at position i, at most 3 (\d{1,3} is greedy)
DigitRun(cs, i) ==
    IF i > Len(cs) \/ cs[i] \notin Digits THEN 0
    ELSE IF i + 1 > Len(cs) \/ cs[i + 1] \notin Digits THEN 1
    ELSE IF i + 2 > Len(cs) \/ cs[i + 2] \notin Digits THEN 2
    ELSE 3

\* positions where the pattern (v\d{1,3}), IGNORECASE, matches
VersionStarts(cs) == {i \in 1..Len(cs) : cs[i] \in {"v", "V"} /\ DigitRun(cs, i + 1) >= 1}

\* faulty variant: one trailing dot is removed
RStripDots_once(cs) ==
    IF cs # <<>> /\ cs[Len(cs)] = "." THEN SubSeq(cs, 1, Len(cs) - 1) ELSE cs

\* str.rstrip(".")
RECURSIVE RStripDots(_)
RStripDots(cs) ==
    IF cs # <<>> /\ cs[Len(cs)] = "." THEN RStripDots(SubSeq(cs, 1, Len(cs) - 1)) ELSE cs

\* the directory-and-file stem that build_base_path formats into the path
ResultStem(project_name, layer_name) ==
    IF VersionStarts(project_name) # {}
    THEN LET start == Min(VersionStarts(project_name))
             end == start + DigitRun(project_name, start + 1)
             version_part == SubSeq(project_name, start, end)
             prefix == RStripDots(SubSeq(project_name, 1, start - 1))
             suffix == SubSeq(project_name, end + 1, Len(project_name))
         IN  prefix \o <<".", "l", ".", layer_name, ".">> \o version_part \o suffix
    ELSE project_name \o <<".", "l", ".", layer_name>>

\* "//../render/render_master/"
RenderMasterDir ==
    <<"/", "/", ".", ".", "/", "r", "e", "n", "d", "e", "r", "/",
      "r", "e", "n", "d", "e", "r", "_", "m", "a", "s", "t", "e", "r", "/">>

build_base_path(project_name, layer_name) ==
    LET res == ResultStem(project_name, layer_name)
    IN  RenderMasterDir \o res \o <<"/">> \o res \o <<".", "#", "#", "#", "#", ".", "e", "x", "r">>

\* pathlib: Path(p).name, the part after the last "/"
PathName(p) ==
    LET slashes == {i \in 1..Len(p) : p[i] = "/"}
    IN  IF slashes = {} THEN p
        ELSE SubSeq(p, (CHOOSE i \in slashes : \A j \in slashes : j <= i) + 1, Len(p))

\* pathlib: Path(p).stem, the name without its last suffix
PathStem(p) ==
    LET name == PathName(p)
        dots == {i \in 1..Len(name) : name[i] = "."}
        last == CHOOSE i \in dots : \A j \in dots : j <= i
    IN  IF dots # {} /\ 1 < last /\ last < Len(name) THEN SubSeq(name, 1, last - 1) ELSE name

\* Path(bpy.data.filepath).stem if bpy.data.filepath else "untitled"
ProjectName(fp) ==
    IF fp # <<>> THEN PathStem(fp) ELSE <<"u", "n", "t", "i", "t", "l", "e", "d">>

(***************************************************************************)
(* core/constants.py                                                       *)
(***************************************************************************)
\* render_nodes.py imports SKIP_PASSES, DENOISE_PASSES and INVERT_Y_PASSES
\* from this module, which binds none of them here: what they hold is not
\* known, only that the code tests pass names for membership.  They are read
\* from core_constants, which never changes and which the scenes take from
\* PassSets.
PassSet(skip, denoise, invert) == [SKIP_PASSES |-> skip, DENOISE_PASSES |-> denoise, INVERT_Y_PASSES |-> invert]

\* the auxiliary passes skipped, the light passes denoised, Position and
\* Normal inverted: three sets without a common member
DisjointPassSets ==
    PassSet({"Alpha", "Noisy Image", "Denoising Normal", "Denoising Albedo", "Denoising Depth"},
            {"Image", "DiffDir", "DiffInd", "GlossDir", "GlossInd", "TransDir", "TransInd",
             "VolumeDir", "VolumeInd", "Emit", "Env", "Shadow", "AO"},
            {"Position", "Normal"})

\* values the three names may have: without a common member; Normal denoised
\* as well as inverted; Position skipped as well as inverted; nothing
\* skipped and every pass both denoised and inverted
PassSets ==
    {DisjointPassSets,
     [DisjointPassSets EXCEPT !.DENOISE_PASSES = @ \cup {"Normal"}],
     [DisjointPassSets EXCEPT !.SKIP_PASSES = @ \cup {"Position"}],
     PassSet({}, {"Image", "Alpha", "Depth", "Normal", "Position", "DiffDir"},
             {"Image", "Alpha", "Depth", "Normal", "Position", "DiffDir"})}

SKIP_PASSES == core_constants.SKIP_PASSES

DENOISE_PASSES == core_constants.DENOISE_PASSES

INVERT_Y_PASSES == core_constants.INVERT_Y_PASSES

(***************************************************************************)
(* The host's node tree: nodes are records, a socket is a (node, index)    *)
(* pair, a link joins an output socket to an input socket.  A node is      *)
(* identified by its position in tree.nodes.                               *)
(***************************************************************************)
Socket(name, enabled) == [name |-> name, enabled |-> enabled]

\* the sockets a fresh node of each type comes with
HostInputs(type) ==
    CASE type = "CompositorNodeDenoise" -> <<Socket("Image", TRUE), Socket("Normal", TRUE), Socket("Albedo", TRUE)>>
      [] type = "CompositorNodeAlphaOver" -> <<Socket("Fac", TRUE), Socket("Image", TRUE), Socket("Image", TRUE)>>
      [] type = "CompositorNodeComposite" -> <<Socket("Image", TRUE), Socket("Alpha", TRUE)>>
      [] type = "CompositorNodeViewer" -> <<Socket("Image", TRUE), Socket("Alpha", TRUE)>>
      [] type = "CompositorNodeOutputFile" -> <<Socket("Image", TRUE)>>
      [] OTHER -> <<>>

HostOutputs(type) ==
    CASE type = "CompositorNodeDenoise" -> <<Socket("Image", TRUE)>>
      [] type = "CompositorNodeAlphaOver" -> <<Socket("Image", TRUE)>>
      [] type = "CompositorNodeImage" -> <<Socket("Image", TRUE), Socket("Alpha", TRUE)>>
      [] OTHER -> <<>>

\* node.type of a node created as bl_idname
NodeType(bl_idname) ==
    CASE bl_idname = "CompositorNodeRLayers" -> "R_LAYERS"
      [] bl_idname = "CompositorNodeOutputFile" -> "OUTPUT_FILE"
      [] bl_idname = "CompositorNodeDenoise" -> "DENOISE"
      [] bl_idname = "CompositorNodeImage" -> "IMAGE"
      [] bl_idname = "CompositorNodeAlphaOver" -> "ALPHAOVER"
      [] bl_idname = "CompositorNodeComposite" -> "COMPOSITE"
      [] bl_idname = "CompositorNodeViewer" -> "VIEWER"
      [] bl_idname = "CompositorNodeGroup" -> "GROUP"
      [] OTHER -> "CUSTOM"

Tree(ns, ls, gs) == [nodes |-> ns, links |-> ls, groups |-> gs]

EmptyTree == Tree(<<>>, {}, <<>>)

\* the name the host gives a fresh node of each type
HostName(bl_idname) ==
    CASE bl_idname = "CompositorNodeRLayers" -> "Render Layers"
      [] bl_idname = "CompositorNodeOutputFile" -> "File Output"
      [] bl_idname = "CompositorNodeDenoise" -> "Denoise"
      [] bl_idname = "CompositorNodeImage" -> "Image"
      [] bl_idname = "CompositorNodeAlphaOver" -> "Alpha Over"
      [] bl_idname = "CompositorNodeComposite" -> "Composite"
      [] bl_idname = "CompositorNodeViewer" -> "Viewer"
      [] bl_idname = "CompositorNodeGroup" -> "Group"
      [] OTHER -> "Node"

\* "%03d"
Pad3(n) == IF n < 10 THEN "00" \o ToString(n) ELSE IF n < 100 THEN "0" \o ToString(n) ELSE ToString(n)

RECURSIVE UniqueNumbered(_, _, _)
UniqueNumbered(names, name, n) ==
    IF name \o "." \o Pad3(n) \notin names THEN name \o "." \o Pad3(n)
    ELSE UniqueNumbered(names, name, n + 1)

\* the host keeps the names of the nodes of a tree, and of the node groups,
\* distinct: a name that is taken gets the first free suffix .001, .002, ...
\* (the names of this model do not end in such a suffix themselves)
UniqueName(names, name) == IF name \notin names THEN name ELSE UniqueNumbered(names, name, 1)

NodeNames(t) == {t.nodes[i].name : i \in 1..Len(t.nodes)}

GroupNames(t) == {t.groups[i].name : i \in 1..Len(t.groups)}

\* tree.nodes.new(type=...) on tree t: a node with the host's defaults.  A
\* node that has not been drawn yet reports dimensions (0, 0).
NewNode(t, bl_idname) ==
    [type |-> NodeType(bl_idname), name |-> UniqueName(NodeNames(t), HostName(bl_idname)),
     label |-> "", layer |-> "",
     location |-> <<0, 0>>, dim_y |-> 0, hide |-> FALSE, base_path |-> <<>>,
     file_slots |-> IF bl_idname = "CompositorNodeOutputFile" THEN <<"Image">> ELSE <<>>,
     inputs |-> HostInputs(bl_idname), outputs |-> HostOutputs(bl_idname),
     node_tree |-> "", image |-> ""]

Link(from_node, from_socket, to_node, to_socket) ==
    [from_node |-> from_node, from_socket |-> from_socket, to_node |-> to_node, to_socket |-> to_socket]

\* tree.links.new(output, input): an input socket holds one link, the new one replaces it
LinksNew(t, l) ==
    [t EXCEPT !.links = {k \in @ : ~(k.to_node = l.to_node /\ k.to_socket = l.to_socket)} \cup {l}]

\* tree.nodes.remove(node) for the node at position i: the node goes, with the
\* links at its sockets; the nodes behind it move up one position
NodesRemove(t, i) ==
    LET Shift(n) == IF n > i THEN n - 1 ELSE n
    IN  [t EXCEPT !.nodes = RemoveAt(@, i),
                  !.links = {Link(Shift(k.from_node), k.from_socket, Shift(k.to_node), k.to_socket) :
                             k \in {k \in @ : k.from_node # i /\ k.to_node # i}}]

\* sockets[name] / sockets.get(name): the 0-based index of the first socket of that name, -1 for None
SocketIndex(sockets, name) ==
    LET hits == {i \in 1..Len(sockets) : sockets[i].name = name}
    IN  IF hits = {} THEN -1 ELSE Min(hits) - 1

(***************************************************************************)
(* core/tools.py                                                           *)
(***************************************************************************)
\* faulty variant: the list is returned in scene order
get_renderable_view_layers_unsorted(vls) == SelectSeq(vls, LAMBDA vl : vl.use)

\* the (layer, sort order) pairs of the layers enabled for rendering, sorted
get_renderable_view_layers(vls) ==
    LET renderable == SelectSeq(vls, LAMBDA vl : vl.use)
        keyed == [i \in 1..Len(renderable) |-> <<renderable[i], renderable[i].qq_render_sort_order>>]
        sorted == SortPairs(keyed)
    IN  [i \in 1..Len(sorted) |-> sorted[i][1]]

\* the loop of clear_nodes: the iterator of the host's collection has moved
\* on to the next node before the body gets the current one, so removing
\* the current node, the first of those that are left, skips none
RECURSIVE ClearLoop(_)
ClearLoop(t) == IF t.nodes = <<>> THEN t ELSE ClearLoop(NodesRemove(t, 1))

\* faulty variant: the loop stops after the first node
clear_nodes_first_only(t) == IF t.nodes = <<>> THEN t ELSE NodesRemove(t, 1)

\* for node in tree.nodes: tree.nodes.remove(node)
clear_nodes(t) == ClearLoop(t)

count_visible_sockets(sockets) == Cardinality({i \in 1..Len(sockets) : sockets[i].enabled})

estimate_node_height(node) ==
    IF node.hide THEN 40
    ELSE Max2(count_visible_sockets(node.inputs), count_visible_sockets(node.outputs)) * 22 + 80

estimate_lowest_node_position(t) ==
    IF t.nodes = <<>> THEN 0
    ELSE Min({t.nodes[i].location[2] - estimate_node_height(t.nodes[i]) : i \in 1..Len(t.nodes)})

get_lowest_node_position(t) ==
    IF t.nodes = <<>> THEN 0
    ELSE Min({t.nodes[i].location[2] - t.nodes[i].dim_y : i \in 1..Len(t.nodes)})

\* each create_* returns the tree with the new node appended; the new node is
\* the last one, at position Len(nodes)
create_render_layers_node(t, view_layer, location) ==
    [t EXCEPT !.nodes = Append(@, [NewNode(t, "CompositorNodeRLayers") EXCEPT
                                      !.layer = view_layer.name,
                                      !.outputs = view_layer.outputs,
                                      !.location = location])]

create_file_output_node(t, name, location, base_path) ==
    [t EXCEPT !.nodes = Append(@, [NewNode(t, "CompositorNodeOutputFile") EXCEPT
                                      !.name = UniqueName(NodeNames(t), name), !.label = name,
                                      !.location = location,
                                      !.base_path = base_path,
                                      !.file_slots = <<>>, !.inputs = <<>>])]

create_denoise_node(t, name, location) ==
    [t EXCEPT !.nodes = Append(@, [NewNode(t, "CompositorNodeDenoise") EXCEPT
                                      !.name = UniqueName(NodeNames(t), name), !.label = name,
                                      !.location = location, !.hide = TRUE])]

create_image_node(t, bg_image, location) ==
    [t EXCEPT !.nodes = Append(@, [NewNode(t, "CompositorNodeImage") EXCEPT
                                      !.image = bg_image.image, !.location = location])]

create_alpha_over_node(t, location, name) ==
    [t EXCEPT !.nodes = Append(@, [NewNode(t, "CompositorNodeAlphaOver") EXCEPT
                                      !.name = UniqueName(NodeNames(t), name), !.label = name,
                                      !.location = location])]

create_composite_node(t, location) ==
    [t EXCEPT !.nodes = Append(@, [NewNode(t, "CompositorNodeComposite") EXCEPT !.location = location])]

create_viewer_node(t, location) ==
    [t EXCEPT !.nodes = Append(@, [NewNode(t, "CompositorNodeViewer") EXCEPT !.location = location])]

\* the node group built by create_vector_invert_group: X stays, Y and Z swap, the new Z is negated
VectorInvertGroup(name) ==
    [name |-> name,
     nodes |-> <<"Group Input", "Group Output", "Separate XYZ", "Multiply", "Combine XYZ">>,
     links |-> {<<"Group Input", 0, "Separate XYZ", 0>>, <<"Separate XYZ", 0, "Combine XYZ", 0>>,
                <<"Separate XYZ", 1, "Multiply", 0>>, <<"Multiply", 0, "Combine XYZ", 2>>,
                <<"Separate XYZ", 2, "Combine XYZ", 1>>, <<"Combine XYZ", 0, "Group Output", 0>>},
     multiply_by |-> -1]

\* bpy.data.node_groups.new(name=...) gives the group a name no group has yet
create_vector_invert_group(t, location, name) ==
    [t EXCEPT !.groups = Append(@, VectorInvertGroup(UniqueName(GroupNames(t), name))),
              !.nodes = Append(@, [NewNode(t, "CompositorNodeGroup") EXCEPT
                                      !.node_tree = UniqueName(GroupNames(t), name),
                                      !.inputs = <<Socket("Vector", TRUE)>>,
                                      !.outputs = <<Socket("Vector", TRUE)>>,
                                      !.name = UniqueName(NodeNames(t), name), !.label = name,
                                      !.location = location, !.hide = TRUE])]

(***************************************************************************)
(* operators/render_nodes.py                                               *)
(***************************************************************************)
\* faulty variant: the albedo guide is not looked at
has_denoising_data_normal_only(render_layers_node) ==
    LET normal == SocketIndex(render_layers_node.outputs, "Denoising Normal")
    IN  /\ normal # -1
        /\ render_layers_node.outputs[normal + 1].enabled

\* truthiness of: normal and normal.enabled and albedo and albedo.enabled
has_denoising_data(render_layers_node) ==
    LET normal == SocketIndex(render_layers_node.outputs, "Denoising Normal")
        albedo == SocketIndex(render_layers_node.outputs, "Denoising Albedo")
    IN  /\ normal # -1
        /\ render_layers_node.outputs[normal + 1].enabled
        /\ albedo # -1
        /\ render_layers_node.outputs[albedo + 1].enabled

\* faulty variant: the two guide passes are wired to each other's input
connect_pass_with_denoise_swapped(t, rl, output, fo, target_input, denoise_location) ==
    LET outs == t.nodes[rl].outputs
        Wire(t1, denoise_node) ==
            LinksNew(LinksNew(LinksNew(LinksNew(t1,
                Link(rl, output, denoise_node, 0)),
                Link(rl, SocketIndex(outs, "Denoising Albedo"), denoise_node, 1)),
                Link(rl, SocketIndex(outs, "Denoising Normal"), denoise_node, 2)),
                Link(denoise_node, 0, fo, target_input))
    IN  Wire(create_denoise_node(t, "Denoise_" \o outs[output + 1].name, denoise_location), Len(t.nodes) + 1)

\* output is the 0-based index of the pass among the outputs of node rl,
\* target_input the 0-based index of the slot among the inputs of node fo
connect_pass_with_denoise(t, rl, output, fo, target_input, denoise_location) ==
    LET outs == t.nodes[rl].outputs
        Wire(t1, denoise_node) ==
            LinksNew(LinksNew(LinksNew(LinksNew(t1,
                Link(rl, output, denoise_node, 0)),
                Link(rl, SocketIndex(outs, "Denoising Normal"), denoise_node, 1)),
                Link(rl, SocketIndex(outs, "Denoising Albedo"), denoise_node, 2)),
                Link(denoise_node, 0, fo, target_input))
    IN  Wire(create_denoise_node(t, "Denoise_" \o outs[output + 1].name, denoise_location), Len(t.nodes) + 1)

\* faulty variant: the group is fed but the slot takes the pass itself
connect_pass_with_invert_bypassed(t, rl, output, fo, target_input, invert_location) ==
    LET outs == t.nodes[rl].outputs
        Wire(t1, invert_group) ==
            LinksNew(LinksNew(t1, Link(rl, output, invert_group, 0)), Link(rl, output, fo, target_input))
    IN  Wire(create_vector_invert_group(t, invert_location, "Invert_" \o outs[output + 1].name), Len(t.nodes) + 1)

connect_pass_with_invert(t, rl, output, fo, target_input, invert_location) ==
    LET outs == t.nodes[rl].outputs
        Wire(t1, invert_group) ==
            LinksNew(LinksNew(t1, Link(rl, output, invert_group, 0)), Link(invert_group, 0, fo, target_input))
    IN  Wire(create_vector_invert_group(t, invert_location, "Invert_" \o outs[output + 1].name), Len(t.nodes) + 1)

\* the first input socket of that name, -1 for None
find_target_input(file_output_node, slot_name) ==
    SocketIndex(file_output_node.inputs, slot_name)

\* file_output_node.file_slots.new(name=...): a slot and its input socket
FileSlotsNew(t, fo, slot_name) ==
    [t EXCEPT !.nodes[fo].file_slots = Append(@, slot_name),
              !.nodes[fo].inputs = Append(@, Socket(slot_name, TRUE))]

\* faulty variant: the combined pass keeps its socket name
SlotName_verbatim(output_name) == output_name

SlotName(output_name) == IF output_name = "Image" THEN "Beauty" ELSE output_name

\* the body of the loop of _connect_passes from output number i (1-based) on
RECURSIVE ConnectPassesLoop(_, _, _, _, _, _, _, _)
ConnectPassesLoop(t, rl, fo, use_denoise, make_y_up, has_denoise_data, middle_y_offset, i) ==
    LET outs == t.nodes[rl].outputs
        output == outs[i]
        rl_x == t.nodes[rl].location[1]
        rl_y == t.nodes[rl].location[2]
        slot_name == SlotName(output.name)
        t1 == FileSlotsNew(t, fo, slot_name)
        target_input == find_target_input(t1.nodes[fo], slot_name)
        should_denoise == use_denoise /\ has_denoise_data /\ output.name \in DENOISE_PASSES
        should_invert == make_y_up /\ output.name \in INVERT_Y_PASSES
        middle == <<rl_x + 450, rl_y + middle_y_offset>>
    IN  IF i > Len(outs) THEN t
        ELSE IF ~output.enabled \/ output.name \in SKIP_PASSES
        THEN ConnectPassesLoop(t, rl, fo, use_denoise, make_y_up, has_denoise_data, middle_y_offset, i + 1)
        ELSE IF target_input = -1
        THEN ConnectPassesLoop(t1, rl, fo, use_denoise, make_y_up, has_denoise_data, middle_y_offset, i + 1)
        ELSE IF should_denoise
        THEN ConnectPassesLoop(connect_pass_with_denoise(t1, rl, i - 1, fo, target_input, middle),
                               rl, fo, use_denoise, make_y_up, has_denoise_data, middle_y_offset - 30, i + 1)
        ELSE IF should_invert
        THEN ConnectPassesLoop(connect_pass_with_invert(t1, rl, i - 1, fo, target_input, middle),
                               rl, fo, use_denoise, make_y_up, has_denoise_data, middle_y_offset - 30, i + 1)
        ELSE ConnectPassesLoop(LinksNew(t1, Link(rl, i - 1, fo, target_input)),
                               rl, fo, use_denoise, make_y_up, has_denoise_data, middle_y_offset, i + 1)

connect_passes(t, rl, fo, use_denoise, make_y_up) ==
    LET has_denoise_data == IF use_denoise THEN has_denoising_data(t.nodes[rl]) ELSE FALSE
    IN  ConnectPassesLoop(t, rl, fo, use_denoise, make_y_up, has_denoise_data, 0, 1)

\* scene.view_layers.get(name): the position of the layer of that name, 0 for None
ViewLayersGet(vls, name) ==
    LET hits == {i \in 1..Len(vls) : vls[i].name = name}
    IN  IF hits = {} THEN 0 ELSE Min(hits)

\* faulty variant: qq_render_use_composite is not looked at
get_composite_render_layers_unfiltered(t, render_layers_nodes, vls) ==
    LET Layer(n) == ViewLayersGet(vls, t.nodes[n].layer)
        chosen == SelectSeq(render_layers_nodes, LAMBDA n : Layer(n) # 0)
        keyed == [i \in 1..Len(chosen) |-> <<chosen[i], vls[Layer(chosen[i])].qq_render_sort_order>>]
        sorted == SortPairs(keyed)
    IN  [i \in 1..Len(sorted) |-> sorted[i][1]]

\* render_layers_nodes is a sequence of node positions
get_composite_render_layers(t, render_layers_nodes, vls) ==
    LET Layer(n) == ViewLayersGet(vls, t.nodes[n].layer)
        chosen == SelectSeq(render_layers_nodes,
                            LAMBDA n : Layer(n) # 0 /\ vls[Layer(n)].qq_render_use_composite)
        keyed == [i \in 1..Len(chosen) |-> <<chosen[i], vls[Layer(chosen[i])].qq_render_sort_order>>]
        sorted == SortPairs(keyed)
    IN  [i \in 1..Len(sorted) |-> sorted[i][1]]

\* <<bg>> for the background image found, <<>> for None
get_camera_background_image(cam) ==
    LET visible_bg_images == SelectSeq(cam.background_images, LAMBDA bg : bg.show_background_image)
    IN  IF ~cam.has THEN <<>>
        ELSE IF cam.background_images = <<>> THEN <<>>
        ELSE IF visible_bg_images = <<>> THEN <<>>
        ELSE IF visible_bg_images[1].source # "IMAGE" \/ visible_bg_images[1].image = "" THEN <<>>
        ELSE <<visible_bg_images[1]>>

\* the loop of _create_alpha_chain from i (0-based) on; r holds the tree and alpha_nodes
RECURSIVE CreateAlphaChainLoop(_, _, _, _, _)
CreateAlphaChainLoop(r, count, start_location, x_offset, i) ==
    LET alpha_node == Len(r.t.nodes) + 1
        alpha_nodes == Append(r.alpha_nodes, alpha_node)
        Chained(t1) == IF i > 0 THEN LinksNew(t1, Link(alpha_nodes[i], 0, alpha_node, 1)) ELSE t1
    IN  IF i >= count THEN r
        ELSE CreateAlphaChainLoop(
                 [t |-> Chained(create_alpha_over_node(
                                    r.t, <<start_location[1] + i * x_offset, start_location[2]>>,
                                    "Alpha_Over_" \o ToString(i + 1))),
                  alpha_nodes |-> alpha_nodes],
                 count, start_location, x_offset, i + 1)

create_alpha_chain(t, count, start_location, x_offset) ==
    CreateAlphaChainLoop([t |-> t, alpha_nodes |-> <<>>], count, start_location, x_offset, 0)

ImageOut(t, n) == SocketIndex(t.nodes[n].outputs, "Image")

\* for i, rl_node in enumerate(composite_nodes): link rl_node into alpha_nodes[i] (0-based)
RECURSIVE ConnectWithBackgroundLoop(_, _, _, _)
ConnectWithBackgroundLoop(t, alpha_nodes, composite_nodes, i) ==
    IF i >= Len(composite_nodes) THEN t
    ELSE ConnectWithBackgroundLoop(
             LinksNew(t, Link(composite_nodes[i + 1], ImageOut(t, composite_nodes[i + 1]),
                              IF i = 0 THEN alpha_nodes[1] ELSE alpha_nodes[i + 1], 2)),
             alpha_nodes, composite_nodes, i + 1)

\* for i, rl_node in enumerate(composite_nodes[1:], start=1): link rl_node into alpha_nodes[i - 1]
RECURSIVE ConnectWithoutBackgroundLoop(_, _, _, _)
ConnectWithoutBackgroundLoop(t, alpha_nodes, composite_nodes, i) ==
    IF i >= Len(composite_nodes) THEN t
    ELSE ConnectWithoutBackgroundLoop(
             LinksNew(t, Link(composite_nodes[i + 1], ImageOut(t, composite_nodes[i + 1]),
                              IF i = 1 THEN alpha_nodes[1] ELSE alpha_nodes[i], 2)),
             alpha_nodes, composite_nodes, i + 1)

\* faulty variant: the first source goes to input 2 of the first Alpha Over node
connect_alpha_inputs_first_on_top(t, alpha_nodes, composite_nodes, image_node) ==
    IF image_node # 0
    THEN ConnectWithBackgroundLoop(
             LinksNew(t, Link(image_node, ImageOut(t, image_node), alpha_nodes[1], 2)),
             alpha_nodes, composite_nodes, 0)
    ELSE ConnectWithoutBackgroundLoop(
             LinksNew(t, Link(composite_nodes[1], ImageOut(t, composite_nodes[1]), alpha_nodes[1], 2)),
             alpha_nodes, composite_nodes, 1)

\* image_node is a node position, 0 for None
connect_alpha_inputs(t, alpha_nodes, composite_nodes, image_node) ==
    IF image_node # 0
    THEN ConnectWithBackgroundLoop(
             LinksNew(t, Link(image_node, ImageOut(t, image_node), alpha_nodes[1], 1)),
             alpha_nodes, composite_nodes, 0)
    ELSE ConnectWithoutBackgroundLoop(
             LinksNew(t, Link(composite_nodes[1], ImageOut(t, composite_nodes[1]), alpha_nodes[1], 1)),
             alpha_nodes, composite_nodes, 1)

\* lines 259-260 and 268-269: node n feeds the Composite and the Viewer node
FeedOutputs(t, n, composite_output, viewer_node) ==
    LinksNew(LinksNew(t, Link(n, ImageOut(t, n), composite_output,
                              SocketIndex(t.nodes[composite_output].inputs, "Image"))),
             Link(n, ImageOut(t, n), viewer_node, SocketIndex(t.nodes[viewer_node].inputs, "Image")))

\* lines 265-269: chain holds the tree and alpha_nodes that _create_alpha_chain returned
WireAlphaChain(chain, composite_nodes, image_node, composite_output, viewer_node) ==
    FeedOutputs(connect_alpha_inputs(chain.t, chain.alpha_nodes, composite_nodes, image_node),
                chain.alpha_nodes[Len(chain.alpha_nodes)], composite_output, viewer_node)

\* lines 246-272: t1 is the tree after line 245, image_node the position of the Image node or 0
CompositeFromImage(t1, image_node, composite_nodes, location) ==
    LET has_background == image_node # 0
        current_x == location[1] + 800
        current_y == location[2]
        total_inputs == Len(composite_nodes) + (IF has_background THEN 1 ELSE 0)
        alpha_count == total_inputs - 1
        composite_x == current_x + alpha_count * 200 + (IF alpha_count # 0 THEN 200 ELSE 0)
        composite_output == Len(t1.nodes) + 1
        viewer_node == Len(t1.nodes) + 2
        t3 == create_viewer_node(create_composite_node(t1, <<composite_x, current_y>>),
                                 <<composite_x, current_y - 150>>)
        source_node == IF has_background THEN image_node ELSE composite_nodes[1]
    IN  IF total_inputs = 1 THEN FeedOutputs(t3, source_node, composite_output, viewer_node)
        ELSE WireAlphaChain(create_alpha_chain(t3, alpha_count, <<current_x, current_y>>, 200),
                            composite_nodes, image_node, composite_output, viewer_node)

build_composite_chain(t, cam, composite_nodes, location) ==
    LET bg_image == get_camera_background_image(cam)
    IN  IF composite_nodes = <<>> THEN t
        ELSE IF bg_image # <<>>
        THEN CompositeFromImage(create_image_node(t, bg_image[1], location), Len(t.nodes) + 1,
                                composite_nodes, location)
        ELSE CompositeFromImage(t, 0, composite_nodes, location)

\* the loop of execute over the renderable view layers from number k (1-based) on;
\* r holds the tree, node_rl_offset and render_layers_nodes.  has_cycles: the
\* view layers have the attribute cycles; line 317 reads it when the engine
\* is CYCLES and raises AttributeError without it, after the two nodes of the
\* layer were created and before a pass is connected.
RECURSIVE GenerateLoop(_, _, _, _, _, _, _)
GenerateLoop(r, layers, eng, has_cycles, make_y_up, fp, k) ==
    LET view_layer == layers[k]
        rl_location == <<0, r.node_rl_offset>>
        fo_location == <<800, r.node_rl_offset>>
        rl_node == Len(r.t.nodes) + 1
        fo_node == Len(r.t.nodes) + 2
        base_path == build_base_path(ProjectName(fp), view_layer.name)
        use_denoise == IF eng = "CYCLES" THEN view_layer.denoising_store_passes ELSE FALSE
        \* the rest of the loop body, and the loop, from the tree with the passes connected
        Connected(t3) ==
            GenerateLoop([t |-> t3,
                          node_rl_offset |-> estimate_lowest_node_position(t3) - 50,
                          render_layers_nodes |-> Append(r.render_layers_nodes, rl_node),
                          raised |-> FALSE],
                         layers, eng, has_cycles, make_y_up, fp, k + 1)
        Created == create_file_output_node(create_render_layers_node(r.t, view_layer, rl_location),
                                           view_layer.name, fo_location, base_path)
    IN  IF k > Len(layers) THEN r
        ELSE IF eng = "CYCLES" /\ ~has_cycles
        THEN [r EXCEPT !.t = Created, !.render_layers_nodes = Append(@, rl_node), !.raised = TRUE]
        ELSE Connected(connect_passes(
                 create_file_output_node(create_render_layers_node(r.t, view_layer, rl_location),
                                         view_layer.name, fo_location, base_path),
                 rl_node, fo_node, use_denoise, make_y_up))

\* faulty variant: the compositor is set up before the renderable layers are looked for
generate_nodes_setup_first(sc, t, has_cycles) ==
    LET layers == get_renderable_view_layers(sc.view_layers)
        \* lines 324-327
        Composite(r, composite_render_nodes, node_y_offset) ==
            IF composite_render_nodes # <<>>
            THEN build_composite_chain(r.t, sc.camera, composite_render_nodes, <<0, node_y_offset>>)
            ELSE r.t
        \* lines 302-327
        Layers(r, node_y_offset) ==
            Composite(r, get_composite_render_layers(r.t, r.render_layers_nodes, sc.view_layers), node_y_offset)
        \* lines 297-331, t1 being the tree after line 295
        Generate(t1, node_y_offset) ==
            LET looped == GenerateLoop([t |-> t1, node_rl_offset |-> node_y_offset - 400,
                                        render_layers_nodes |-> <<>>, raised |-> FALSE],
                                       layers, sc.engine, has_cycles, sc.qq_render_make_y_up, sc.filepath, 1)
            IN  IF looped.raised
                THEN [t |-> looped.t, use_nodes |-> TRUE, result |-> "RAISED",
                      found |-> Len(t.nodes), kept |-> Len(t1.nodes)]
                ELSE [t |-> Layers(looped, node_y_offset), use_nodes |-> TRUE, result |-> "FINISHED",
                      found |-> Len(t.nodes), kept |-> Len(t1.nodes)]
        Cleared(t1) == Generate(t1, get_lowest_node_position(t1) - 50)
        Cancelled(t1) == [t |-> t1, use_nodes |-> TRUE, result |-> "CANCELLED",
                          found |-> Len(t.nodes), kept |-> Len(t1.nodes)]
    IN  IF layers = <<>>
        THEN Cancelled(IF sc.qq_render_clear_nodes THEN clear_nodes(t) ELSE t)
        ELSE Cleared(IF sc.qq_render_clear_nodes THEN clear_nodes(t) ELSE t)

\* QQ_RENDER_OT_generate_nodes.execute on the scene sc with tree t.  Returns
\* the tree, use_nodes, the return value, the number of nodes that were in the
\* tree before and the number of those that are still there.  An exception
\* leaves what was done before it: the result is RAISED and the tree has the
\* nodes created so far.
generate_nodes(sc, t, has_cycles) ==
    LET layers == get_renderable_view_layers(sc.view_layers)
        \* lines 324-327
        Composite(r, composite_render_nodes, node_y_offset) ==
            IF composite_render_nodes # <<>>
            THEN build_composite_chain(r.t, sc.camera, composite_render_nodes, <<0, node_y_offset>>)
            ELSE r.t
        \* lines 302-327
        Layers(r, node_y_offset) ==
            Composite(r, get_composite_render_layers(r.t, r.render_layers_nodes, sc.view_layers), node_y_offset)
        \* lines 297-331, t1 being the tree after line 295
        Generate(t1, node_y_offset) ==
            LET looped == GenerateLoop([t |-> t1, node_rl_offset |-> node_y_offset - 400,
                                        render_layers_nodes |-> <<>>, raised |-> FALSE],
                                       layers, sc.engine, has_cycles, sc.qq_render_make_y_up, sc.filepath, 1)
            IN  IF looped.raised
                THEN [t |-> looped.t, use_nodes |-> TRUE, result |-> "RAISED",
                      found |-> Len(t.nodes), kept |-> Len(t1.nodes)]
                ELSE [t |-> Layers(looped, node_y_offset), use_nodes |-> TRUE, result |-> "FINISHED",
                      found |-> Len(t.nodes), kept |-> Len(t1.nodes)]
        Cleared(t1) == Generate(t1, get_lowest_node_position(t1) - 50)
    IN  IF layers = <<>>
        THEN [t |-> t, use_nodes |-> sc.use_nodes, result |-> "CANCELLED",
              found |-> Len(t.nodes), kept |-> Len(t.nodes)]
        ELSE Cleared(IF sc.qq_render_clear_nodes THEN clear_nodes(t) ELSE t)

\* the loop of update_output_paths over tree.nodes from position i on
RECURSIVE UpdatePathsLoop(_, _, _)
UpdatePathsLoop(ns, project_name, i) ==
    IF i > Len(ns) THEN ns
    ELSE UpdatePathsLoop(
             IF ns[i].type = "OUTPUT_FILE"
             THEN [ns EXCEPT ![i].base_path = build_base_path(project_name, ns[i].name)]
             ELSE ns,
             project_name, i + 1)

\* faulty variant: the compositor is not tested for being enabled
update_output_paths_unchecked(sc, t) ==
    LET ns == UpdatePathsLoop(t.nodes, ProjectName(sc.filepath), 1)
        updated_count == Cardinality({i \in 1..Len(t.nodes) : t.nodes[i].type = "OUTPUT_FILE"})
    IN  IF updated_count = 0 THEN [t |-> [t EXCEPT !.nodes = ns], result |-> "CANCELLED"]
        ELSE [t |-> [t EXCEPT !.nodes = ns], result |-> "FINISHED"]

\* QQ_RENDER_OT_update_output_paths.execute.  scene.node_tree exists whenever
\* use_nodes is on, so the first test is the test of use_nodes.
update_output_paths(sc, t) ==
    LET ns == UpdatePathsLoop(t.nodes, ProjectName(sc.filepath), 1)
        updated_count == Cardinality({i \in 1..Len(t.nodes) : t.nodes[i].type = "OUTPUT_FILE"})
    IN  IF ~sc.use_nodes THEN [t |-> t, result |-> "CANCELLED"]
        ELSE IF updated_count = 0 THEN [t |-> [t EXCEPT !.nodes = ns], result |-> "CANCELLED"]
        ELSE [t |-> [t EXCEPT !.nodes = ns], result |-> "FINISHED"]

(***************************************************************************)
(* The scenes the operators are run on                                     *)
(***************************************************************************)
Engines == {"CYCLES", "BLENDER_EEVEE_NEXT", "BLENDER_EEVEE"}

\* the outputs the host gives a Render Layers node, by the passes of its view layer
PassesBasic == <<Socket("Image", TRUE), Socket("Alpha", TRUE), Socket("Depth", FALSE), Socket("Normal", FALSE)>>

PassesData == <<Socket("Image", TRUE), Socket("Alpha", TRUE), Socket("Depth", TRUE), Socket("Normal", TRUE),
                Socket("Position", TRUE), Socket("DiffDir", TRUE),
                Socket("Denoising Normal", FALSE), Socket("Denoising Albedo", FALSE)>>

PassesDenoise == <<Socket("Image", TRUE), Socket("Alpha", TRUE), Socket("Normal", TRUE), Socket("DiffDir", TRUE),
                   Socket("Denoising Normal", TRUE), Socket("Denoising Albedo", TRUE)>>

PassesPartial == <<Socket("Image", TRUE), Socket("Alpha", TRUE), Socket("DiffDir", TRUE),
                   Socket("Denoising Normal", TRUE), Socket("Denoising Albedo", FALSE)>>

PassProfiles == {PassesBasic, PassesData, PassesDenoise, PassesPartial}

LayerName(i) == "L" \o ToString(i)

ViewLayer(name, use, order, composite, store, outputs) ==
    [name |-> name, use |-> use, qq_render_sort_order |-> order, qq_render_use_composite |-> composite,
     denoising_store_passes |-> store, outputs |-> outputs]

BackgroundImage(show, source, image) ==
    [show_background_image |-> show, source |-> source, image |-> image]

Cameras ==
    {[has |-> FALSE, background_images |-> <<>>],
     [has |-> TRUE, background_images |-> <<>>],
     [has |-> TRUE, background_images |-> <<BackgroundImage(FALSE, "IMAGE", "plate_a"),
                                            BackgroundImage(TRUE, "IMAGE", "plate_b")>>],
     [has |-> TRUE, background_images |-> <<BackgroundImage(TRUE, "MOVIE_CLIP", ""),
                                            BackgroundImage(TRUE, "IMAGE", "plate_b")>>]}

NoCamera == [has |-> FALSE, background_images |-> <<>>]

\* "" (never saved), /p/shot.blend, /p/sh.v01.blend
Unsaved == <<>>

SavedPlain == <<"/", "p", "/", "s", "h", "o", "t", ".", "b", "l", "e", "n", "d">>

SavedVersioned == <<"/", "p", "/", "s", "h", ".", "v", "0", "1", ".", "b", "l", "e", "n", "d">>

\* "//old/old.####.exr"
OldBasePath == <<"/", "/", "o", "l", "d", "/", "o", "l", "d", ".", "#", "#", "#", "#", ".", "e", "x", "r">>

\* nodes that are in the tree before the operators run: a Render Layers node
\* linked to File Output nodes whose base_path is from an earlier project
ExistingNode(i) ==
    IF i = 1
    THEN [NewNode(EmptyTree, "CompositorNodeRLayers") EXCEPT
             !.layer = "L1", !.outputs = PassesBasic, !.dim_y = 120]
    ELSE [NewNode(EmptyTree, "CompositorNodeOutputFile") EXCEPT
             !.name = "old" \o ToString(i), !.label = "old" \o ToString(i),
             !.location = <<800, (1 - i) * 200>>, !.dim_y = 100,
             !.file_slots = <<"Beauty">>, !.inputs = <<Socket("Beauty", TRUE)>>,
             !.base_path = OldBasePath]

ExistingNodes(k) == [i \in 1..k |-> ExistingNode(i)]

ExistingLinks(k) == {Link(1, 0, i, 0) : i \in 2..k}

\* QQ_ConfirmDialogProps at its defaults
NoDialog == [file_paths |-> <<>>, callback_operator |-> "", title |-> "File already exists"]

Scene == [view_layers |-> view_layers, engine |-> engine, qq_render_make_y_up |-> qq_render_make_y_up,
          qq_render_clear_nodes |-> qq_render_clear_nodes, camera |-> camera, filepath |-> filepath,
          use_nodes |-> use_nodes]

\* the host keeps the names of the view layers of a scene distinct
Named(f) == [i \in DOMAIN f |-> [f[i] EXCEPT !.name = LayerName(i)]]

\* scenes that differ in the passes and the denoising settings of their layers
InitPasses ==
    /\ \E n \in 1..MaxLayers :
           \E f \in [1..n -> {ViewLayer("", TRUE, 0, FALSE, store, outputs) :
                                 store \in BOOLEAN, outputs \in PassProfiles}] :
               view_layers = Named(f)
    /\ core_constants \in PassSets
    /\ engine \in Engines
    /\ qq_render_make_y_up \in BOOLEAN
    /\ qq_render_clear_nodes = TRUE
    /\ camera = NoCamera
    /\ filepath = SavedVersioned
    /\ use_nodes = FALSE
    /\ nodes = <<>>
    /\ links = {}

\* scenes that differ in which layers render and composite and in what order,
\* in the camera background, the file path and the tree that is already there
InitLayers ==
    /\ \E n \in 1..MaxLayers :
           \E f \in [1..n -> {ViewLayer("", use, order, composite, FALSE, PassesBasic) :
                                 use \in BOOLEAN, order \in 0..MaxOrder, composite \in BOOLEAN}] :
               view_layers = Named(f)
    /\ core_constants = DisjointPassSets
    /\ engine = "CYCLES"
    /\ qq_render_make_y_up = FALSE
    /\ qq_render_clear_nodes \in BOOLEAN
    /\ camera \in Cameras
    /\ filepath \in {Unsaved, SavedPlain}
    /\ \E k \in 0..MaxExisting :
           /\ nodes = ExistingNodes(k)
           /\ links = ExistingLinks(k)
           /\ use_nodes \in {k > 0 /\ b : b \in BOOLEAN}

\* view_layer_clipboard as the module defines it; passes holds the outputs
\* that the use_pass_* settings switch, cycles the denoising_store_passes
\* setting, source the name of the copied layer, <<>> standing for None
NoClipboard == [passes |-> <<>>, cycles |-> <<>>, source |-> <<>>]

\* no operator has run, no dialog is open
InitSession ==
    /\ view_layer_clipboard = NoClipboard
    /\ node_groups = <<>>
    /\ op = "none"
    /\ result = "none"
    /\ found = 0
    /\ kept = 0
    /\ self_layer_name = ""
    /\ initialized = FALSE
    /\ qq_confirm_dialog = NoDialog
    /\ popup = ""
    /\ renders = 0
    /\ qq_render_export_path = ""
    /\ camera_path = <<>>
    /\ export_path = <<>>
    /\ host_calls = <<>>

\* the render buttons are not used: toggles at their defaults, nothing on disk
InitNoRender ==
    /\ active = 1
    /\ qq_render_update_paths = TRUE
    /\ qq_render_export_camera = FALSE
    /\ disk = {}

Init ==
    /\ InitPasses \/ InitLayers
    /\ InitSession
    /\ InitNoRender

(***************************************************************************)
(* Operations                                                              *)
(***************************************************************************)
\* the button "Generate Render Nodes"
GenerateNodes ==
    /\ Len(nodes) <= MaxExisting
    /\ Len(node_groups) <= MaxExisting
    /\ \E has_cycles \in {b \in BOOLEAN : engine = "CYCLES" => b} :
           \E r \in {generate_nodes(Scene, Tree(nodes, links, node_groups), has_cycles)} :
               /\ nodes' = r.t.nodes
               /\ links' = r.t.links
               /\ node_groups' = r.t.groups
               /\ use_nodes' = r.use_nodes
               /\ result' = r.result
               /\ found' = r.found
               /\ kept' = r.kept
    /\ op' = "generate_nodes"
    /\ UNCHANGED <<scene_vars, layer_vars, render_vars>>

\* the button "Update Output Paths"
UpdateOutputPaths ==
    /\ \E r \in {update_output_paths(Scene, Tree(nodes, links, node_groups))} :
           /\ nodes' = r.t.nodes
           /\ result' = r.result
    /\ op' = "update_output_paths"
    /\ UNCHANGED <<scene_vars, use_nodes, links, node_groups, found, kept, layer_vars, render_vars>>

Next == GenerateNodes \/ UpdateOutputPaths

Spec == Init /\ [][Next]_vars

(***************************************************************************)
(* operators/vl_list.py: the view layer list                               *)
(*                                                                         *)
(* A view layer object is named by its position in scene.view_layers.      *)
(***************************************************************************)
MaxViewLayers == 3  \* view layers the list may grow to
MaxSortOrder == 3   \* largest qq_render_sort_order vl_list_add may still hand out

SortOrders(vls) == [i \in 1..Len(vls) |-> vls[i].qq_render_sort_order]

\* len(orders) != len(set(orders))
HasDuplicateOrders(vls) == Len(vls) # Cardinality({vls[i].qq_render_sort_order : i \in 1..Len(vls)})

\* faulty variant: the number of layers stands in for the highest sort order
get_max_sort_order_by_count(vls) == Len(vls) - 1

get_max_sort_order(vls) ==
    IF vls = <<>> THEN -1
    ELSE CHOOSE m \in {vls[i].qq_render_sort_order : i \in 1..Len(vls)} :
             \A i \in 1..Len(vls) : vls[i].qq_render_sort_order <= m

\* the host names a copy by the first free number
FreshLayerName(vls) ==
    LayerName(Min({k \in 1..(Len(vls) + 1) : \A i \in 1..Len(vls) : vls[i].name # LayerName(k)}))

\* bpy.ops.scene.view_layer_add(type="COPY"): a copy of the active layer is
\* appended under a fresh name and becomes the window's view layer
ViewLayerAddCopy(vls, act) == Append(vls, [vls[act] EXCEPT !.name = FreshLayerName(vls)])

\* QQ_RENDER_OT_vl_list_add.execute
vl_list_add(vls, act) ==
    LET next_order == get_max_sort_order(vls) + 1
        new_layer == Len(vls) + 1
    IN  [view_layers |-> [ViewLayerAddCopy(vls, act) EXCEPT ![new_layer].qq_render_sort_order = next_order],
         active |-> new_layer, result |-> "FINISHED"]

\* QQ_RENDER_OT_vl_list_remove.execute; idx is the 0-based index of the
\* window's view layer, which is none when that layer is of another scene
\* (act = 0)
vl_list_remove(vls, act) ==
    LET idx == act - 1
        removed == RemoveAt(vls, idx + 1)
        new_idx == Min({idx, Len(removed) - 1})
    IN  IF act \notin 1..Len(vls) THEN [view_layers |-> vls, active |-> act, result |-> "CANCELLED"]
        ELSE [view_layers |-> removed, active |-> IF new_idx >= 0 THEN new_idx + 1 ELSE act,
              result |-> "FINISHED"]

\* faulty variant: equal sort orders are left as they are
ensure_unique_sort_orders_never(vls) == vls

ensure_unique_sort_orders(vls) ==
    IF HasDuplicateOrders(vls)
    THEN [idx \in 1..Len(vls) |-> [vls[idx] EXCEPT !.qq_render_sort_order = idx - 1]]
    ELSE vls

\* sorted(scene.view_layers, key=...): the layers, as positions in vls
get_sorted_view_layers(vls) ==
    LET sorted == SortPairs([i \in 1..Len(vls) |-> <<i, vls[i].qq_render_sort_order>>])
    IN  [i \in 1..Len(sorted) |-> sorted[i][1]]

\* 0-based position of the layer in sorted order, -1 if it is not there
get_view_layer_sort_position(vls, view_layer) ==
    LET sorted_layers == get_sorted_view_layers(vls)
        hits == {idx \in 1..Len(sorted_layers) : sorted_layers[idx] = view_layer}
    IN  IF hits = {} THEN -1 ELSE Min(hits) - 1

swap_sort_orders(vls, layer_a, layer_b) ==
    [vls EXCEPT ![layer_a].qq_render_sort_order = vls[layer_b].qq_render_sort_order,
                ![layer_b].qq_render_sort_order = vls[layer_a].qq_render_sort_order]

\* QQ_RENDER_OT_vl_move_up.execute
vl_move_up(vls, name) ==
    LET Move(vls1, view_layer) ==
            LET sorted_layers == get_sorted_view_layers(vls1)
                current_pos == get_view_layer_sort_position(vls1, view_layer)
            IN  IF view_layer = 0 THEN [view_layers |-> vls1, result |-> "CANCELLED"]
                ELSE IF current_pos <= 0 THEN [view_layers |-> vls1, result |-> "CANCELLED"]
                ELSE [view_layers |-> swap_sort_orders(vls1, view_layer, sorted_layers[current_pos]),
                      result |-> "FINISHED"]
        Unique(vls1) == Move(vls1, ViewLayersGet(vls1, name))
    IN  Unique(ensure_unique_sort_orders(vls))

\* QQ_RENDER_OT_vl_move_down.execute
vl_move_down(vls, name) ==
    LET Move(vls1, view_layer) ==
            LET sorted_layers == get_sorted_view_layers(vls1)
                current_pos == get_view_layer_sort_position(vls1, view_layer)
            IN  IF view_layer = 0 THEN [view_layers |-> vls1, result |-> "CANCELLED"]
                ELSE IF current_pos < 0 \/ current_pos >= Len(sorted_layers) - 1
                     THEN [view_layers |-> vls1, result |-> "CANCELLED"]
                ELSE [view_layers |-> swap_sort_orders(vls1, view_layer, sorted_layers[current_pos + 2]),
                      result |-> "FINISHED"]
        Unique(vls1) == Move(vls1, ViewLayersGet(vls1, name))
    IN  Unique(ensure_unique_sort_orders(vls))

\* the setter of scene.qq_render_active_view_layer_index
set_active_view_layer_index(vls, act, value) ==
    IF 0 <= value /\ value < Len(vls) THEN value + 1 ELSE act

\* QQ_RENDER_OT_vl_list_copy.execute; has_cycles: the view layer has the
\* attribute cycles, which the Cycles add-on registers
vl_list_copy(vls, act, clipboard, has_cycles) ==
    [view_layer_clipboard |-> [passes |-> vls[act].outputs,
                               cycles |-> IF has_cycles THEN <<vls[act].denoising_store_passes>>
                                          ELSE clipboard.cycles,
                               source |-> <<vls[act].name>>],
     result |-> "FINISHED"]

\* QQ_RENDER_OT_vl_list_paste.execute
vl_list_paste(vls, act, clipboard, has_cycles) ==
    LET Passes(vls1) ==
            IF clipboard.passes # <<>> THEN [vls1 EXCEPT ![act].outputs = clipboard.passes] ELSE vls1
        Cycles(vls1) ==
            IF has_cycles /\ clipboard.cycles # <<>>
            THEN [vls1 EXCEPT ![act].denoising_store_passes = clipboard.cycles[1]]
            ELSE vls1
    IN  [view_layers |-> Cycles(Passes(vls)), result |-> "FINISHED"]

\* the names a move button can carry: the layers' names and one no layer has
LayerNames == {view_layers[i].name : i \in 1..Len(view_layers)} \cup {"gone"}

\* a scene for the view layer list: the compositor is off and empty
InitNoTree ==
    /\ core_constants = DisjointPassSets
    /\ engine = "CYCLES"
    /\ qq_render_make_y_up = FALSE
    /\ qq_render_clear_nodes = TRUE
    /\ camera = NoCamera
    /\ filepath = SavedPlain
    /\ use_nodes = FALSE
    /\ nodes = <<>>
    /\ links = {}

\* view layers with any sort orders, the default 0 for all among them
InitViewLayers ==
    /\ \E n \in 1..MaxViewLayers :
           /\ \E f \in [1..n -> {ViewLayer("", TRUE, order, TRUE, FALSE, PassesBasic) : order \in 0..MaxOrder}] :
                  view_layers = Named(f)
           /\ active \in 1..n
    /\ qq_render_update_paths = TRUE
    /\ qq_render_export_camera = FALSE
    /\ disk = {}
    /\ InitNoTree
    /\ InitSession

\* the button "+" of the list
VlListAdd ==
    /\ Len(view_layers) < MaxViewLayers
    /\ get_max_sort_order(view_layers) < MaxSortOrder
    /\ \E r \in {vl_list_add(view_layers, active)} :
           /\ view_layers' = r.view_layers
           /\ active' = r.active
           /\ result' = r.result
    /\ op' = "vl_list_add"
    /\ self_layer_name' = ""
    /\ initialized' = FALSE
    /\ UNCHANGED <<core_constants, engine, qq_render_make_y_up, qq_render_clear_nodes, camera, filepath,
                   view_layer_clipboard, tree_vars, render_vars>>

\* the button "-" of the list, which poll enables for two layers or more;
\* the window shows the scene of the list, so its view layer is one of view_layers
VlListRemove ==
    /\ Len(view_layers) > 1
    /\ \E r \in {vl_list_remove(view_layers, active)} :
           /\ view_layers' = r.view_layers
           /\ active' = r.active
           /\ result' = r.result
    /\ op' = "vl_list_remove"
    /\ self_layer_name' = ""
    /\ initialized' = FALSE
    /\ UNCHANGED <<core_constants, engine, qq_render_make_y_up, qq_render_clear_nodes, camera, filepath,
                   view_layer_clipboard, tree_vars, render_vars>>

\* the arrow up of a row, which poll enables for two layers or more
VlMoveUp ==
    /\ Len(view_layers) > 1
    /\ \E name \in LayerNames :
           \E r \in {vl_move_up(view_layers, name)} :
               /\ view_layers' = r.view_layers
               /\ result' = r.result
               /\ self_layer_name' = name
    /\ op' = "vl_move_up"
    /\ initialized' = HasDuplicateOrders(view_layers)
    /\ UNCHANGED <<core_constants, engine, qq_render_make_y_up, qq_render_clear_nodes, camera, filepath, active,
                   view_layer_clipboard, tree_vars, render_vars>>

\* the arrow down of a row
VlMoveDown ==
    /\ Len(view_layers) > 1
    /\ \E name \in LayerNames :
           \E r \in {vl_move_down(view_layers, name)} :
               /\ view_layers' = r.view_layers
               /\ result' = r.result
               /\ self_layer_name' = name
    /\ op' = "vl_move_down"
    /\ initialized' = HasDuplicateOrders(view_layers)
    /\ UNCHANGED <<core_constants, engine, qq_render_make_y_up, qq_render_clear_nodes, camera, filepath, active,
                   view_layer_clipboard, tree_vars, render_vars>>

\* a click on a row of the list
SetActiveViewLayerIndex ==
    /\ \E value \in -1..Len(view_layers) :
           active' = set_active_view_layer_index(view_layers, active, value)
    /\ op' = "set_active_view_layer_index"
    /\ result' = "none"
    /\ self_layer_name' = ""
    /\ initialized' = FALSE
    /\ UNCHANGED <<scene_vars, view_layer_clipboard, tree_vars, render_vars>>

\* "Copy View Layer Settings"
VlListCopy ==
    /\ \E has_cycles \in BOOLEAN :
           \E r \in {vl_list_copy(view_layers, active, view_layer_clipboard, has_cycles)} :
               /\ view_layer_clipboard' = r.view_layer_clipboard
               /\ result' = r.result
    /\ op' = "vl_list_copy"
    /\ self_layer_name' = ""
    /\ initialized' = FALSE
    /\ UNCHANGED <<scene_vars, active, tree_vars, render_vars>>

\* "Paste View Layer Settings", which poll enables once something was copied
VlListPaste ==
    /\ view_layer_clipboard.source # <<>>
    /\ \E has_cycles \in BOOLEAN :
           \E r \in {vl_list_paste(view_layers, active, view_layer_clipboard, has_cycles)} :
               /\ view_layers' = r.view_layers
               /\ result' = r.result
    /\ op' = "vl_list_paste"
    /\ self_layer_name' = ""
    /\ initialized' = FALSE
    /\ UNCHANGED <<core_constants, engine, qq_render_make_y_up, qq_render_clear_nodes, camera, filepath, active,
                   view_layer_clipboard, tree_vars, render_vars>>

NextLayers ==
    \/ VlListAdd
    \/ VlListRemove
    \/ VlMoveUp
    \/ VlMoveDown
    \/ SetActiveViewLayerIndex
    \/ VlListCopy
    \/ VlListPaste

SpecLayers == InitViewLayers /\ [][NextLayers]_vars

\* the same list, started with pairwise distinct sort orders
InitDistinctLayers == InitViewLayers /\ ~HasDuplicateOrders(view_layers)

SpecDistinctLayers == InitDistinctLayers /\ [][NextLayers]_vars

(***************************************************************************)
(* core/path_utils.py, core/relative_path.py: the camera export path       *)
(*                                                                         *)
(* The two modules define build_camera_export_path each; the one of        *)
(* path_utils.py is path_utils_build_camera_export_path here.              *)
(***************************************************************************)
\* filename, which both modules compute alike
CameraFilename(project_name) ==
    IF VersionStarts(project_name) # {}
    THEN LET start == Min(VersionStarts(project_name))
             end == start + DigitRun(project_name, start + 1)
             version_part == SubSeq(project_name, start, end)
             prefix == RStripDots(SubSeq(project_name, 1, start - 1))
             suffix == SubSeq(project_name, end + 1, Len(project_name))
         IN  prefix \o <<".", "c", "a", "m", "e", "r", "a", ".">> \o version_part \o suffix
                 \o <<".", "a", "b", "c">>
    ELSE project_name \o <<".", "c", "a", "m", "e", "r", "a", ".", "a", "b", "c">>

\* relative_path.py
build_camera_export_path(project_name) == RenderMasterDir \o CameraFilename(project_name)

\* path_utils.py
path_utils_build_camera_export_path(project_name) ==
    RenderMasterDir \o project_name \o <<"/">> \o CameraFilename(project_name)

\* pathlib: Path(p).parent of an absolute path
PathParent(p) ==
    LET slashes == {i \in 1..Len(p) : p[i] = "/"}
        last == CHOOSE i \in slashes : \A j \in slashes : j <= i
    IN  IF last = 1 THEN <<"/">> ELSE SubSeq(p, 1, last - 1)

\* the parts of a path between its slashes
RECURSIVE SplitPath(_)
SplitPath(p) ==
    LET slashes == {i \in 1..Len(p) : p[i] = "/"}
    IN  IF slashes = {} THEN <<p>>
        ELSE <<SubSeq(p, 1, Min(slashes) - 1)>> \o SplitPath(SubSeq(p, Min(slashes) + 1, Len(p)))

\* the parts with "", "." dropped and ".." taking the part before it away
RECURSIVE Collapse(_, _)
Collapse(parts, stack) ==
    IF parts = <<>> THEN stack
    ELSE Collapse(Tail(parts),
                  IF Len(Head(parts)) = 0 \/ Head(parts) = <<".">> THEN stack
                  ELSE IF Head(parts) = <<".", ".">> THEN SubSeq(stack, 1, Len(stack) - 1)
                  ELSE Append(stack, Head(parts)))

RECURSIVE JoinParts(_)
JoinParts(parts) == IF parts = <<>> THEN <<>> ELSE <<"/">> \o Head(parts) \o JoinParts(Tail(parts))

\* Path.resolve() of an absolute path, and the file the system opens for
\* it, there being no symbolic links
RealPath(p) ==
    IF Collapse(SplitPath(p), <<>>) = <<>> THEN <<"/">> ELSE JoinParts(Collapse(SplitPath(p), <<>>))

\* relative_path[2:] if relative_path.startswith("//")
StripBlendPrefix(relative_path) ==
    IF Len(relative_path) >= 2 /\ relative_path[1] = "/" /\ relative_path[2] = "/"
    THEN SubSeq(relative_path, 3, Len(relative_path))
    ELSE relative_path

\* pathlib: a / b, where an absolute b replaces a
PathJoin(a, b) ==
    IF b # <<>> /\ b[1] = "/" THEN b
    ELSE IF a[Len(a)] = "/" THEN a \o b
    ELSE a \o <<"/">> \o b

resolve_relative_path(blend_path, relative_path) ==
    RealPath(PathJoin(PathParent(blend_path), StripBlendPrefix(relative_path)))

\* bpy.path.abspath: os.path.join(os.path.dirname(bpy.data.filepath), path[2:])
\* for a path that starts with "//", the path itself otherwise
abspath(blend_path, path) ==
    IF Len(path) >= 2 /\ path[1] = "/" /\ path[2] = "/"
    THEN PathJoin(PathParent(blend_path), SubSeq(path, 3, Len(path)))
    ELSE path

\* faulty variant: nothing is ever found on disk
path_exists_never(path, dsk) == FALSE

\* a file, or an image sequence of that pattern, is on disk; disk holds the
\* resolved paths as strings
path_exists(path, dsk) == Join(path) \in dsk

(***************************************************************************)
(* operators/render.py, operators/export_camera.py, ui/confirm_dialog.py   *)
(*                                                                         *)
(* The operators work on a record of the state they read and write; an     *)
(* operator that another one calls through bpy.ops is applied to the       *)
(* caller's record.  An operator that raises has the result "RAISED" and   *)
(* keeps what it wrote before.                                             *)
(***************************************************************************)
MaxRenders == 2     \* animation renders that may be started

\* what the host does with the Alembic file: it is written, the exporter
\* raises, or the directory for it cannot be made
AlembicOutcomes == {"written", "export_raises", "mkdir_raises"}

\* the operators of the host that the add-on's source names
HostOperators == {"render.render", "scene.view_layer_add", "wm.alembic_export", "object.select_all"}

\* what an operator of the host answers when it is called with no argument:
\* a return value, or an exception (its poll fails, or it reports an error)
HostResults == {"FINISHED", "CANCELLED", "RAISED"}

\* what the host is like when an operator runs: the outcome of the Alembic
\* export, whether view layers have the attribute cycles, and the answer of
\* an operator of the host that is called by idname
HostStates == [alembic : AlembicOutcomes, has_cycles : BOOLEAN, host_result : HostResults]

Session ==
    [view_layers |-> view_layers, engine |-> engine, qq_render_make_y_up |-> qq_render_make_y_up,
     qq_render_clear_nodes |-> qq_render_clear_nodes,
     filepath |-> filepath, camera |-> camera, use_nodes |-> use_nodes,
     core_constants |-> core_constants,
     t |-> Tree(nodes, links, node_groups), found |-> found, kept |-> kept,
     active |-> active, self_layer_name |-> self_layer_name, initialized |-> initialized,
     view_layer_clipboard |-> view_layer_clipboard,
     qq_render_update_paths |-> qq_render_update_paths,
     qq_render_export_camera |-> qq_render_export_camera,
     disk |-> disk, qq_confirm_dialog |-> qq_confirm_dialog, popup |-> popup, renders |-> renders,
     qq_render_export_path |-> qq_render_export_path, camera_path |-> camera_path,
     export_path |-> export_path, result |-> result, success |-> FALSE, raised |-> FALSE,
     reported_error |-> FALSE,
     host_calls |-> host_calls,
     alembic |-> "written", has_cycles |-> TRUE, host_result |-> "FINISHED"]

\* the record of an operator that runs on a host like h
OnHost(st, h) == [st EXCEPT !.alembic = h.alembic, !.has_cycles = h.has_cycles, !.host_result = h.host_result]

\* _export_camera_to_alembic: success is its return value; mkdir is outside
\* the try and raises out of the function, the exporter is inside it.
\* reported_error: report_func was called with ERROR (lines 29 and 77).
export_camera_to_alembic(st) ==
    LET Exported(export_path_obj) ==
            IF st.alembic = "mkdir_raises" THEN [st EXCEPT !.raised = TRUE]
            ELSE IF st.alembic = "export_raises" THEN [st EXCEPT !.success = FALSE, !.reported_error = TRUE]
            ELSE [st EXCEPT !.disk = @ \cup {Join(RealPath(export_path_obj))},
                            !.export_path = export_path_obj,
                            !.success = TRUE]
    IN  IF ~st.camera.has THEN [st EXCEPT !.success = FALSE, !.reported_error = TRUE]
        ELSE IF st.filepath = <<>> THEN [st EXCEPT !.success = FALSE]
        ELSE Exported(abspath(st.filepath, build_camera_export_path(PathStem(st.filepath))))

\* QQ_RENDER_OT_render_animation_execute.execute; no module registers
\* qq_render.export_camera_execute, so the call of it raises AttributeError
\* before the render is started
render_animation_execute(st) ==
    IF st.qq_render_export_camera THEN [st EXCEPT !.result = "RAISED"]
    ELSE [st EXCEPT !.renders = @ + 1, !.result = "FINISHED"]

\* the File Output nodes of the tree, in tree order
FileOutputNodes(t) ==
    SelectSeq([i \in 1..Len(t.nodes) |-> i], LAMBDA i : t.nodes[i].type = "OUTPUT_FILE")

\* QQ_RENDER_OT_check_and_render.execute: the render is started, nothing is tested
check_and_render_execute(st) == render_animation_execute(st)

\* QQ_RENDER_OT_check_and_render.invoke
check_and_render(st) ==
    LET Checked(st1, camera_resolved, outputs) ==
            LET camera_existing ==
                    IF st1.qq_render_export_camera /\ path_exists(camera_resolved, st1.disk)
                    THEN <<Join(camera_resolved)>> ELSE <<>>
                existing == SelectSeq(outputs, LAMBDA i :
                             path_exists(resolve_relative_path(st1.filepath, st1.t.nodes[i].base_path),
                                         st1.disk))
                existing_paths ==
                    camera_existing \o
                        [k \in 1..Len(existing) |->
                            Join(resolve_relative_path(st1.filepath, st1.t.nodes[existing[k]].base_path))]
                Tested(st2) ==
                    IF st2.qq_render_export_camera THEN [st2 EXCEPT !.camera_path = camera_resolved] ELSE st2
            IN  IF Len(outputs) = 0 THEN [Tested(st1) EXCEPT !.result = "CANCELLED"]
                ELSE IF existing_paths # <<>>
                     THEN [Tested(st1) EXCEPT
                              !.qq_confirm_dialog =
                                  [file_paths |-> existing_paths,
                                   callback_operator |-> "qq_render.render_animation_execute",
                                   title |-> "Render outputs already exist:"],
                              !.popup = "qq_render.overwrite_confirm",
                              !.result = "FINISHED"]
                ELSE render_animation_execute(Tested(st1))
        Updated(st1) ==
            IF ~st1.use_nodes THEN render_animation_execute(st1)
            ELSE Checked(st1,
                         resolve_relative_path(st1.filepath,
                                               path_utils_build_camera_export_path(PathStem(st1.filepath))),
                         FileOutputNodes(st1.t))
    IN  IF st.filepath = <<>> THEN [st EXCEPT !.result = "CANCELLED"]
        ELSE IF st.qq_render_update_paths
             THEN Updated([st EXCEPT !.t = update_output_paths(
                                               [filepath |-> st.filepath, use_nodes |-> st.use_nodes], st.t).t])
        ELSE Updated(st)

\* QQ_RENDER_OT_export_camera.execute and QQ_RENDER_OT_export_camera_confirm.execute
export_camera_now(st) ==
    LET Reported(st1) ==
            [st1 EXCEPT !.result = IF st1.raised THEN "RAISED"
                                   ELSE IF st1.success THEN "FINISHED" ELSE "CANCELLED"]
    IN  Reported(export_camera_to_alembic(st))

\* QQ_RENDER_OT_export_camera.invoke
export_camera(st) ==
    LET Asked(export_path_obj) ==
            IF Join(RealPath(export_path_obj)) \in st.disk
            THEN [st EXCEPT !.qq_render_export_path = Join(export_path_obj),
                            !.popup = "qq_render.export_camera_confirm",
                            !.result = "FINISHED"]
            ELSE export_camera_now(st)
    IN  IF st.filepath = <<>> THEN [st EXCEPT !.result = "CANCELLED"]
        ELSE Asked(abspath(st.filepath, build_camera_export_path(PathStem(st.filepath))))

\* bpy.ops.scene.view_layer_add() with its default type "NEW": a layer with
\* the defaults of the host and of the add-on's properties is appended under
\* a fresh name and becomes the window's view layer
ViewLayerAddNew(vls) == Append(vls, ViewLayer(FreshLayerName(vls), TRUE, 0, TRUE, FALSE, PassesBasic))

\* an operator of the host called by idname with no argument: the call is
\* recorded and answered as the host answers it.  Of what the operator does
\* in the host the model has the view layer that scene.view_layer_add
\* appends; render.render without animation=True renders the current frame,
\* which is no animation render and leaves renders as it is.
call_host_operator(idname, st) ==
    LET Called(st1) == [st1 EXCEPT !.host_calls = Append(@, idname), !.result = st.host_result]
    IN  IF idname = "scene.view_layer_add" /\ st.host_result = "FINISHED"
        THEN Called([st EXCEPT !.view_layers = ViewLayerAddNew(@), !.active = Len(st.view_layers) + 1])
        ELSE Called(st)

\* op_func(): the operator that idname names is called with no properties
\* and no execution context, so its poll is tested and its execute runs.  A
\* poll that fails raises RuntimeError, an idname that names no operator
\* raises AttributeError, and an operator that reported an error makes the
\* call raise RuntimeError after it has run.  The operators are those of the
\* add-on and HostOperators.  qq_render.overwrite_confirm as its own callback calls
\* itself until RecursionError, which the innermost of the calls catches, so
\* every one of them returns CANCELLED.
call_operator(idname, st) ==
    LET sc == [view_layers |-> st.view_layers, engine |-> st.engine,
               qq_render_make_y_up |-> st.qq_render_make_y_up,
               qq_render_clear_nodes |-> st.qq_render_clear_nodes,
               camera |-> st.camera, filepath |-> st.filepath, use_nodes |-> st.use_nodes]
        Raised == [st EXCEPT !.result = "RAISED"]
        Reported(r) == IF r.reported_error THEN [r EXCEPT !.result = "RAISED"] ELSE r
        Generated(r) == [st EXCEPT !.t = r.t, !.use_nodes = r.use_nodes, !.found = r.found, !.kept = r.kept,
                                   !.result = r.result]
        Paths(r) == [st EXCEPT !.t = r.t, !.result = r.result]
        Listed(r) == [st EXCEPT !.view_layers = r.view_layers, !.active = r.active, !.result = r.result,
                                !.self_layer_name = "", !.initialized = FALSE]
        \* the property layer_name has its default, the empty string
        Moved(r) == [st EXCEPT !.view_layers = r.view_layers, !.result = r.result,
                               !.self_layer_name = "", !.initialized = HasDuplicateOrders(st.view_layers)]
        Copied(r) == [st EXCEPT !.view_layer_clipboard = r.view_layer_clipboard, !.result = r.result,
                                !.self_layer_name = "", !.initialized = FALSE]
        Pasted(r) == [st EXCEPT !.view_layers = r.view_layers, !.result = r.result,
                                !.self_layer_name = "", !.initialized = FALSE]
    IN  CASE idname \in HostOperators -> call_host_operator(idname, st)
          [] idname = "qq_render.generate_nodes" -> Generated(generate_nodes(sc, st.t, st.has_cycles))
          [] idname = "qq_render.update_output_paths" -> Paths(update_output_paths(sc, st.t))
          [] idname = "qq_render.render_animation_execute" -> render_animation_execute(st)
          [] idname = "qq_render.check_and_render" -> check_and_render_execute(st)
          [] idname = "qq_render.overwrite_confirm" -> [st EXCEPT !.result = "CANCELLED"]
          [] idname = "qq_render.export_camera" ->
                 IF st.camera.has THEN Reported(export_camera_now(st)) ELSE Raised
          [] idname = "qq_render.export_camera_confirm" -> Reported(export_camera_now(st))
          [] idname = "qq_render.vl_list_add" -> Listed(vl_list_add(st.view_layers, st.active))
          [] idname = "qq_render.vl_list_remove" ->
                 IF Len(st.view_layers) > 1 THEN Listed(vl_list_remove(st.view_layers, st.active)) ELSE Raised
          [] idname = "qq_render.vl_move_up" ->
                 IF Len(st.view_layers) > 1 THEN Moved(vl_move_up(st.view_layers, "")) ELSE Raised
          [] idname = "qq_render.vl_move_down" ->
                 IF Len(st.view_layers) > 1 THEN Moved(vl_move_down(st.view_layers, "")) ELSE Raised
          [] idname = "qq_render.vl_list_copy" ->
                 Copied(vl_list_copy(st.view_layers, st.active, st.view_layer_clipboard, st.has_cycles))
          [] idname = "qq_render.vl_list_paste" ->
                 IF st.view_layer_clipboard.source # <<>>
                 THEN Pasted(vl_list_paste(st.view_layers, st.active, st.view_layer_clipboard, st.has_cycles))
                 ELSE Raised
          [] OTHER -> Raised

\* QQ_RENDER_OT_overwrite_confirm.execute: the result of the callback, and
\* CANCELLED when the callback raised
overwrite_confirm(st) ==
    LET Caught(st1) == IF st1.result = "RAISED" THEN [st1 EXCEPT !.result = "CANCELLED"] ELSE st1
    IN  IF st.qq_confirm_dialog.callback_operator = "" THEN [st EXCEPT !.result = "CANCELLED"]
        ELSE Caught(call_operator(st.qq_confirm_dialog.callback_operator, st))

\* the paths that may be on disk before the buttons are pressed: outputs of
\* the tree as it is and as update_output_paths would make it, and the
\* camera file at either of the two export paths
DiskCandidates(fp) ==
    {Join(resolve_relative_path(fp, OldBasePath)),
     Join(resolve_relative_path(fp, build_base_path(PathStem(fp), "old2"))),
     Join(resolve_relative_path(fp, path_utils_build_camera_export_path(PathStem(fp)))),
     Join(RealPath(abspath(fp, build_camera_export_path(PathStem(fp)))))}

InitRender ==
    /\ view_layers = Named(<<ViewLayer("", TRUE, 0, TRUE, FALSE, PassesBasic)>>)
    /\ active = 1
    /\ core_constants = DisjointPassSets
    /\ engine = "CYCLES"
    /\ qq_render_make_y_up = FALSE
    /\ qq_render_clear_nodes = TRUE
    /\ camera \in {NoCamera, [has |-> TRUE, background_images |-> <<>>]}
    /\ filepath \in {Unsaved, SavedPlain, SavedVersioned}
    /\ \E k \in 0..(MaxExisting + 1) :
           /\ nodes = ExistingNodes(k)
           /\ links = ExistingLinks(k)
           /\ use_nodes \in {k > 0 /\ b : b \in BOOLEAN}
    /\ qq_render_update_paths \in BOOLEAN
    /\ qq_render_export_camera \in BOOLEAN
    /\ disk \in IF filepath = Unsaved THEN {{}} ELSE SUBSET DiskCandidates(filepath)
    /\ InitSession

\* the variables an operator of this section may write take their values from its record
SessionBecomes(r) ==
    /\ view_layers' = r.view_layers
    /\ active' = r.active
    /\ self_layer_name' = r.self_layer_name
    /\ initialized' = r.initialized
    /\ view_layer_clipboard' = r.view_layer_clipboard
    /\ use_nodes' = r.use_nodes
    /\ found' = r.found
    /\ kept' = r.kept
    /\ nodes' = r.t.nodes
    /\ links' = r.t.links
    /\ node_groups' = r.t.groups
    /\ disk' = r.disk
    /\ qq_confirm_dialog' = r.qq_confirm_dialog
    /\ popup' = r.popup
    /\ renders' = r.renders
    /\ qq_render_export_path' = r.qq_render_export_path
    /\ camera_path' = r.camera_path
    /\ export_path' = r.export_path
    /\ host_calls' = r.host_calls
    /\ result' = r.result
    /\ UNCHANGED <<core_constants, engine, qq_render_make_y_up, qq_render_clear_nodes, camera, filepath,
                   qq_render_update_paths, qq_render_export_camera>>

\* the button "qq Render Animation"
CheckAndRender ==
    /\ popup = ""
    /\ renders < MaxRenders
    /\ \E r \in {check_and_render(Session)} : SessionBecomes(r)
    /\ op' = "check_and_render"

\* qq_render.check_and_render called from a script or a key map without the
\* context INVOKE_DEFAULT: execute runs in the place of invoke
CheckAndRenderExecute ==
    /\ popup = ""
    /\ renders < MaxRenders
    /\ \E r \in {check_and_render_execute(Session)} : SessionBecomes(r)
    /\ op' = "check_and_render.execute"

\* qq_render.render_animation_execute called by its idname
RenderAnimationExecute ==
    /\ popup = ""
    /\ renders < MaxRenders
    /\ \E r \in {render_animation_execute(Session)} : SessionBecomes(r)
    /\ op' = "render_animation_execute"

\* OK in the overwrite dialog: the host closes it and runs execute
OverwriteConfirm ==
    /\ popup = "qq_render.overwrite_confirm"
    /\ renders < MaxRenders
    /\ \E h \in HostStates :
           \E r \in {overwrite_confirm(OnHost([Session EXCEPT !.popup = ""], h))} : SessionBecomes(r)
    /\ op' = "overwrite_confirm"

\* the button "Export Camera", which poll enables when the scene has a camera
ExportCamera ==
    /\ popup = ""
    /\ camera.has
    /\ \E outcome \in AlembicOutcomes :
           \E r \in {export_camera([Session EXCEPT !.alembic = outcome])} : SessionBecomes(r)
    /\ op' = "export_camera"

\* qq_render.export_camera called without the context INVOKE_DEFAULT: execute
\* runs in the place of invoke and the file on disk is not looked for
ExportCameraExecute ==
    /\ popup = ""
    /\ camera.has
    /\ \E outcome \in AlembicOutcomes :
           \E r \in {export_camera_now([Session EXCEPT !.alembic = outcome])} : SessionBecomes(r)
    /\ op' = "export_camera.execute"

\* OK in the dialog of the camera export
ExportCameraConfirm ==
    /\ popup = "qq_render.export_camera_confirm"
    /\ \E outcome \in AlembicOutcomes :
           \E r \in {export_camera_now([Session EXCEPT !.popup = "", !.alembic = outcome])} : SessionBecomes(r)
    /\ op' = "export_camera_confirm"

\* the dialog is left without OK: the host closes it and runs nothing
DismissPopup ==
    /\ popup # ""
    /\ popup' = ""
    /\ op' = "dismiss"
    /\ result' = "CANCELLED"
    /\ UNCHANGED <<scene_vars, tree_vars, layer_vars, qq_render_update_paths, qq_render_export_camera,
                   disk, qq_confirm_dialog, renders, qq_render_export_path, camera_path, export_path,
                   host_calls>>

NextRender ==
    \/ CheckAndRender
    \/ CheckAndRenderExecute
    \/ RenderAnimationExecute
    \/ OverwriteConfirm
    \/ ExportCamera
    \/ ExportCameraExecute
    \/ ExportCameraConfirm
    \/ DismissPopup

SpecRender == InitRender /\ [][NextRender]_vars

(***************************************************************************)
(* The node generator over project names and layer names                   *)
(***************************************************************************)
MaxNameLen == 4     \* characters of a project name

NameAlphabet == {"a", ".", "v", "V", "1", "U+0663"}

\* the sequences over NameAlphabet of length 1..MaxNameLen
ProjectNames == UNION {[1..n -> NameAlphabet] : n \in 1..MaxNameLen}

\* "/p/<name>.blend"
BlendFile(name) == <<"/", "p", "/">> \o name \o <<".", "b", "l", "e", "n", "d">>

\* the names of the two view layers of the scene
LayerNamePairs == {<<"bg", "bg.fx">>, <<"fx.v2", "fx">>}

InitPaths ==
    /\ \E names \in LayerNamePairs :
           view_layers = [i \in 1..2 |-> ViewLayer(names[i], TRUE, 0, FALSE, FALSE, PassesBasic)]
    /\ \E name \in ProjectNames : filepath = BlendFile(name)
    /\ core_constants = DisjointPassSets
    /\ engine = "BLENDER_EEVEE_NEXT"
    /\ qq_render_make_y_up = FALSE
    /\ qq_render_clear_nodes = TRUE
    /\ camera = NoCamera
    /\ use_nodes = FALSE
    /\ nodes = <<>>
    /\ links = {}
    /\ InitSession
    /\ InitNoRender

SpecPaths == InitPaths /\ [][Next]_vars

(***************************************************************************)
(* Vocabulary of the properties                                            *)
(***************************************************************************)
\* the nodes the last generate_nodes created: those behind the ones it kept
Created == (kept + 1)..Len(nodes)

CreatedOfType(type) == {i \in Created : nodes[i].type = type}

GenerateFinished == op = "generate_nodes" /\ result = "FINISHED"

Renderable == {j \in 1..Len(view_layers) : view_layers[j].use}

RenderLayersNodesOf(name) == {i \in CreatedOfType("R_LAYERS") : nodes[i].layer = name}

FileOutputNodesOf(name) == {i \in CreatedOfType("OUTPUT_FILE") : nodes[i].name = name}

LinksInto(n, socket) == {l \in links : l.to_node = n /\ l.to_socket = socket}

\* the slot a pass is written to
ExpectedSlot(output_name) == IF output_name = "Image" THEN "Beauty" ELSE output_name

\* the 1-based positions of the slots of File Output node fo that carry that name
SlotsNamed(fo, slot_name) == {s \in 1..Len(nodes[fo].file_slots) : nodes[fo].file_slots[s] = slot_name}

Eligible(output) == output.enabled /\ output.name \notin SKIP_PASSES

\* the ways output o of node rl reaches input s of node fo (both 0-based)
Routes(rl, o, fo, s) ==
    {<<"direct", 0>> : x \in {l \in links : l = Link(rl, o, fo, s)}}
    \cup {<<"denoise", d>> : d \in {d \in CreatedOfType("DENOISE") :
                                      Link(rl, o, d, 0) \in links /\ Link(d, 0, fo, s) \in links}}
    \cup {<<"invert", g>> : g \in {g \in CreatedOfType("GROUP") :
                                     Link(rl, o, g, 0) \in links /\ Link(g, 0, fo, s) \in links}}

\* the (Render Layers node, File Output node) pairs of the rendered layers;
\* the label of a File Output node is the name of its layer
LayerPairs ==
    {<<rl, fo>> \in CreatedOfType("R_LAYERS") \X CreatedOfType("OUTPUT_FILE") :
        nodes[fo].label = nodes[rl].layer}

(***************************************************************************)
(* C1: when generate_nodes runs on a scene with a renderable view layer it *)
(* returns FINISHED and has created exactly one Render Layers node and one *)
(* File Output node per renderable layer, none for a layer that is off;    *)
(* the former carries the layer's name as its layer, the latter as its     *)
(* name, with base_path = build_base_path(project name, layer name).       *)
(***************************************************************************)
C1_OneNodePairPerRenderableLayer ==
    (op = "generate_nodes" /\ Renderable # {}) =>
        /\ result = "FINISHED"
        /\ Cardinality(CreatedOfType("R_LAYERS")) = Cardinality(Renderable)
        /\ Cardinality(CreatedOfType("OUTPUT_FILE")) = Cardinality(Renderable)
        /\ \A j \in 1..Len(view_layers) :
               LET name == view_layers[j].name
               IN  IF view_layers[j].use
                   THEN /\ Cardinality(RenderLayersNodesOf(name)) = 1
                        /\ Cardinality(FileOutputNodesOf(name)) = 1
                        /\ \A fo \in FileOutputNodesOf(name) :
                               nodes[fo].base_path = build_base_path(ProjectName(filepath), name)
                   ELSE /\ RenderLayersNodesOf(name) = {}
                        /\ FileOutputNodesOf(name) = {}

(***************************************************************************)
(* C2: with pairwise distinct output names, none but "Image" mapping to    *)
(* the slot "Beauty": every enabled output outside SKIP_PASSES has exactly *)
(* one slot (Beauty for Image, else its own name), fed by exactly one link *)
(* over exactly one route (direct, one Denoise node, or one invert group); *)
(* any other output has no slot and no link into the File Output node.     *)
(***************************************************************************)
DistinctSlotNames(outputs) ==
    /\ \A a, b \in 1..Len(outputs) : outputs[a].name = outputs[b].name => a = b
    /\ \A a \in 1..Len(outputs) : outputs[a].name # "Beauty"

C2_EveryPassHasOneSlotAndRoute ==
    GenerateFinished =>
        \A p \in LayerPairs :
            LET rl == p[1]
                fo == p[2]
                outputs == nodes[rl].outputs
            IN  DistinctSlotNames(outputs) =>
                    \A o \in 1..Len(outputs) :
                        LET slots == SlotsNamed(fo, ExpectedSlot(outputs[o].name))
                        IN  IF Eligible(outputs[o])
                            THEN /\ Cardinality(slots) = 1
                                 /\ \A s \in slots :
                                        /\ nodes[fo].inputs[s].name = ExpectedSlot(outputs[o].name)
                                        /\ Cardinality(LinksInto(fo, s - 1)) = 1
                                        /\ Cardinality(Routes(rl, o - 1, fo, s - 1)) = 1
                            ELSE /\ slots = {}
                                 /\ ~\E l \in links : l.from_node = rl /\ l.from_socket = o - 1 /\ l.to_node = fo

\* one layer where a pass goes direct, one through Denoise, one through an invert group, one is skipped
C2_Witness ==
    /\ GenerateFinished
    /\ \E p \in LayerPairs :
           /\ \E s \in SlotsNamed(p[2], "Beauty") : \E d \in CreatedOfType("DENOISE") : Link(d, 0, p[2], s - 1) \in links
           /\ \E s \in SlotsNamed(p[2], "Normal") : \E g \in CreatedOfType("GROUP") : Link(g, 0, p[2], s - 1) \in links
           /\ SlotsNamed(p[2], "Alpha") = {}
    /\ \E p \in LayerPairs :
           \E s \in SlotsNamed(p[2], "Depth") : \E l \in links : l.from_node = p[1] /\ l.to_node = p[2] /\ l.to_socket = s - 1

(***************************************************************************)
(* C3: a Denoise node is created for a pass of a rendered layer exactly    *)
(* when the engine is CYCLES, the layer stores denoising passes, its       *)
(* Render Layers node has "Denoising Normal" and "Denoising Albedo"        *)
(* present and enabled, and the pass is enabled, outside SKIP_PASSES and   *)
(* in DENOISE_PASSES; under another engine there is no Denoise node.       *)
(***************************************************************************)
PresentAndEnabled(outputs, name) == \E i \in 1..Len(outputs) : outputs[i].name = name /\ outputs[i].enabled

\* the Denoise nodes whose input 0 is fed by output o (0-based) of node rl
DenoiseNodesFor(rl, o) == {d \in CreatedOfType("DENOISE") : Link(rl, o, d, 0) \in links}

C3_DenoiseExactlyWhenEnabled ==
    GenerateFinished =>
        /\ \A rl \in CreatedOfType("R_LAYERS") :
               LET outputs == nodes[rl].outputs
                   layer == view_layers[ViewLayersGet(view_layers, nodes[rl].layer)]
               IN  \A o \in 1..Len(outputs) :
                       /\ Cardinality(DenoiseNodesFor(rl, o - 1)) <= 1
                       /\ DenoiseNodesFor(rl, o - 1) # {} <=>
                              /\ engine = "CYCLES"
                              /\ layer.denoising_store_passes
                              /\ PresentAndEnabled(outputs, "Denoising Normal")
                              /\ PresentAndEnabled(outputs, "Denoising Albedo")
                              /\ outputs[o].enabled
                              /\ outputs[o].name \notin SKIP_PASSES
                              /\ outputs[o].name \in DENOISE_PASSES
        /\ \A d \in CreatedOfType("DENOISE") :
               \E rl \in CreatedOfType("R_LAYERS") : \E o \in 1..Len(nodes[rl].outputs) : d \in DenoiseNodesFor(rl, o - 1)
        /\ engine # "CYCLES" => CreatedOfType("DENOISE") = {}

\* a Cycles run with a layer that is denoised next to one whose albedo guide is disabled
C3_Witness ==
    /\ GenerateFinished
    /\ engine = "CYCLES"
    /\ \E rl \in CreatedOfType("R_LAYERS") : \E o \in 1..Len(nodes[rl].outputs) : DenoiseNodesFor(rl, o - 1) # {}
    /\ \E rl \in CreatedOfType("R_LAYERS") :
           /\ view_layers[ViewLayersGet(view_layers, nodes[rl].layer)].denoising_store_passes
           /\ PresentAndEnabled(nodes[rl].outputs, "Denoising Normal")
           /\ ~PresentAndEnabled(nodes[rl].outputs, "Denoising Albedo")
           /\ \A o \in 1..Len(nodes[rl].outputs) : DenoiseNodesFor(rl, o - 1) = {}

(***************************************************************************)
(* C4: every Denoise node has the denoised pass on input 0, "Denoising     *)
(* Normal" of the same Render Layers node on input 1 and its "Denoising    *)
(* Albedo" on input 2, and output 0 linked to the slot of that pass in the *)
(* File Output node of the same layer.                                     *)
(***************************************************************************)
C4_DenoiseWiring ==
    GenerateFinished =>
        \A d \in CreatedOfType("DENOISE") :
            \E p \in LayerPairs :
                LET rl == p[1]
                    fo == p[2]
                    outputs == nodes[rl].outputs
                IN  \E o, normal, albedo \in 1..Len(outputs) :
                        /\ outputs[normal].name = "Denoising Normal"
                        /\ outputs[albedo].name = "Denoising Albedo"
                        /\ {l \in links : l.to_node = d} =
                               {Link(rl, o - 1, d, 0), Link(rl, normal - 1, d, 1), Link(rl, albedo - 1, d, 2)}
                        /\ \E s \in SlotsNamed(fo, ExpectedSlot(outputs[o].name)) :
                               /\ Link(d, 0, fo, s - 1) \in links
                               /\ {l \in links : l.from_node = d} = {Link(d, 0, fo, s - 1)}

\* two denoised layers, so that a guide pass of the wrong layer would be there to take
C4_Witness ==
    /\ GenerateFinished
    /\ \E d1, d2 \in CreatedOfType("DENOISE") :
           \E l1, l2 \in links :
               /\ l1.to_node = d1 /\ l1.to_socket = 2
               /\ l2.to_node = d2 /\ l2.to_socket = 2
               /\ l1.from_node # l2.from_node

(***************************************************************************)
(* C5 as the spec has it: with Make Y Up on, every enabled pass named in   *)
(* INVERT_Y_PASSES reaches its File Output slot through a vector-invert    *)
(* group node; with it off, generate_nodes creates no vector-invert group. *)
(***************************************************************************)
\* output o (1-based) of node rl reaches its slot of node fo through a group
ThroughInvertGroup(rl, o, fo) ==
    \E s \in SlotsNamed(fo, ExpectedSlot(nodes[rl].outputs[o].name)) :
        \E g \in CreatedOfType("GROUP") :
            /\ LinksInto(g, 0) = {Link(rl, o - 1, g, 0)}
            /\ LinksInto(fo, s - 1) = {Link(g, 0, fo, s - 1)}
            /\ \E k \in 1..Len(node_groups) : node_groups[k].name = nodes[g].node_tree

DenoiseOpen(rl) ==
    /\ engine = "CYCLES"
    /\ view_layers[ViewLayersGet(view_layers, nodes[rl].layer)].denoising_store_passes
    /\ PresentAndEnabled(nodes[rl].outputs, "Denoising Normal")
    /\ PresentAndEnabled(nodes[rl].outputs, "Denoising Albedo")

CompositeLayers == {j \in Renderable : view_layers[j].qq_render_use_composite}

HasBackground == get_camera_background_image(camera) # <<>>

ChainInputs == Cardinality(CompositeLayers) + (IF HasBackground THEN 1 ELSE 0)

\* the k-th (1-based) of a set of node positions, in creation order
Nth(S, k) == CHOOSE x \in S : Cardinality({y \in S : y < x}) = k - 1

AlphaOver(k) == Nth(CreatedOfType("ALPHAOVER"), k)

\* the link that feeds an input which has exactly one
Feed(n, socket) == CHOOSE l \in LinksInto(n, socket) : TRUE

TheComposite == Nth(CreatedOfType("COMPOSITE"), 1)

TheViewer == Nth(CreatedOfType("VIEWER"), 1)

\* S[k], 0-based, read back from the links
ChainSource(k) ==
    IF ChainInputs = 1 THEN Feed(TheComposite, 0)
    ELSE IF k = 0 THEN Feed(AlphaOver(1), 1)
    ELSE Feed(AlphaOver(k), 2)

FromImageOutput(l) == nodes[l.from_node].outputs[l.from_socket + 1].name = "Image"

\* the sort order of the layer a Render Layers node shows
OrderOf(rl) == view_layers[ViewLayersGet(view_layers, nodes[rl].layer)].qq_render_sort_order

C6_CompositeChainIsLeftFold ==
    (GenerateFinished /\ CompositeLayers # {}) =>
        LET n == ChainInputs
            first == IF HasBackground THEN 1 ELSE 0
            last == IF n = 1 THEN ChainSource(0).from_node ELSE AlphaOver(n - 1)
        IN  /\ Cardinality(CreatedOfType("ALPHAOVER")) = n - 1
            /\ Cardinality(CreatedOfType("COMPOSITE")) = 1
            /\ Cardinality(CreatedOfType("VIEWER")) = 1
            /\ Cardinality(CreatedOfType("IMAGE")) = first
            /\ \A k \in 1..(n - 1) :
                   /\ Cardinality(LinksInto(AlphaOver(k), 1)) = 1
                   /\ Cardinality(LinksInto(AlphaOver(k), 2)) = 1
                   /\ LinksInto(AlphaOver(k), 0) = {}
                   /\ k > 1 => Feed(AlphaOver(k), 1) = Link(AlphaOver(k - 1), 0, AlphaOver(k), 1)
            /\ Cardinality(LinksInto(TheComposite, 0)) = 1
            /\ Cardinality(LinksInto(TheViewer, 0)) = 1
            /\ Feed(TheComposite, 0).from_node = last
            /\ Feed(TheViewer, 0).from_node = last
            /\ FromImageOutput(Feed(TheComposite, 0))
            /\ FromImageOutput(Feed(TheViewer, 0))
            /\ HasBackground =>
                   /\ ChainSource(0).from_node \in CreatedOfType("IMAGE")
                   /\ nodes[ChainSource(0).from_node].image = get_camera_background_image(camera)[1].image
            /\ \A k \in 0..(n - 1) : FromImageOutput(ChainSource(k))
            /\ \A k \in first..(n - 1) : ChainSource(k).from_node \in CreatedOfType("R_LAYERS")
            /\ {nodes[ChainSource(k).from_node].layer : k \in first..(n - 1)} =
                   {view_layers[j].name : j \in CompositeLayers}
            /\ \A k \in first..(n - 2) : OrderOf(ChainSource(k).from_node) <= OrderOf(ChainSource(k + 1).from_node)

\* a background image and two composite layers whose sort order reverses their scene order
C6_Witness ==
    /\ GenerateFinished
    /\ HasBackground
    /\ Cardinality(CreatedOfType("ALPHAOVER")) = 2
    /\ \E a, b \in CompositeLayers :
           a < b /\ view_layers[a].qq_render_sort_order > view_layers[b].qq_render_sort_order

(***************************************************************************)
(* C8: clear_nodes removes every node of the tree, whatever their number,  *)
(* so after generate_nodes with Clear Nodes on the tree holds only nodes   *)
(* that this run created.                                                  *)
(***************************************************************************)
C8_ClearNodesLeavesNothing ==
    (GenerateFinished /\ qq_render_clear_nodes) =>
        /\ kept = 0
        /\ Created = 1..Len(nodes)

\* a run with Clear Nodes on that found a tree of linked nodes and kept none of them
C8_Witness ==
    /\ GenerateFinished
    /\ qq_render_clear_nodes
    /\ found = MaxExisting
    /\ kept = 0
    /\ nodes # <<>>

(***************************************************************************)
(* C9: when no view layer is enabled for rendering, generate_nodes returns *)
(* CANCELLED and changes nothing: use_nodes stays as it was, no node is    *)
(* removed even with Clear Nodes on, no node, slot or link is created.     *)
(***************************************************************************)
C9_CancelledGenerateChangesNothing ==
    [][(op' = "generate_nodes" /\ Renderable = {}) =>
           /\ result' = "CANCELLED"
           /\ use_nodes' = use_nodes
           /\ nodes' = nodes
           /\ links' = links
           /\ node_groups' = node_groups
           /\ UNCHANGED scene_vars]_vars

\* a cancelled run on a tree with nodes, Clear Nodes on and the compositor off
C9_Witness ==
    /\ op = "generate_nodes"
    /\ result = "CANCELLED"
    /\ qq_render_clear_nodes
    /\ ~use_nodes
    /\ Len(nodes) = MaxExisting
    /\ links # {}

(***************************************************************************)
(* C10: update_output_paths returns FINISHED exactly when the compositor   *)
(* is enabled and the tree has a File Output node; it then has set the     *)
(* base_path of every File Output node to build_base_path(project name,    *)
(* node name) and changed nothing else; otherwise it returns CANCELLED and *)
(* has changed no base_path.                                               *)
(***************************************************************************)
C10_UpdateOutputPaths ==
    [][op' = "update_output_paths" =>
           LET enabled == use_nodes /\ \E i \in 1..Len(nodes) : nodes[i].type = "OUTPUT_FILE"
           IN  /\ result' = IF enabled THEN "FINISHED" ELSE "CANCELLED"
               /\ Len(nodes') = Len(nodes)
               /\ \A i \in 1..Len(nodes) :
                      nodes'[i] = IF enabled /\ nodes[i].type = "OUTPUT_FILE"
                                  THEN [nodes[i] EXCEPT !.base_path =
                                           build_base_path(ProjectName(filepath), nodes[i].name)]
                                  ELSE nodes[i]
               /\ UNCHANGED <<links, node_groups, use_nodes, scene_vars>>]_vars

\* a File Output node of an earlier project has been given the path of this one
C10_Witness ==
    /\ op = "update_output_paths"
    /\ result = "FINISHED"
    /\ \E i \in 1..Len(nodes) :
           /\ nodes[i].name = "old2"
           /\ Join(nodes[i].base_path) = "//../render/render_master/shot.l.old2/shot.l.old2.####.exr"
    /\ \E i \in 1..Len(nodes) : nodes[i].type = "R_LAYERS" /\ nodes[i].base_path = <<>>

(***************************************************************************)
(* The view layer list                                                     *)
(***************************************************************************)
MoveOperators == {"vl_move_up", "vl_move_down"}

\* the names of the layers in the order the list shows them
SortedNames(vls) == [i \in 1..Len(vls) |-> vls[get_sorted_view_layers(vls)[i]].name]

\* s with the elements at positions i and j exchanged
Exchanged(s, i, j) == [s EXCEPT ![i] = s[j], ![j] = s[i]]

\* 1-based position of the layer of that name in the list, 0 if there is none
ListPosition(vls, name) ==
    LET hits == {i \in 1..Len(vls) : SortedNames(vls)[i] = name}
    IN  IF hits = {} THEN 0 ELSE Min(hits)

\* C12: a move up from position p > 0 of the list as it stood before the call
\* exchanges the layer with the one at p-1 and leaves the others in place; a
\* move down from p < n-1 exchanges it with the one at p+1.
C12_MoveExchangesNeighbours ==
    [][LET p == ListPosition(view_layers, self_layer_name')
       IN  /\ (op' = "vl_move_up" /\ p > 1)
                  => SortedNames(view_layers') = Exchanged(SortedNames(view_layers), p, p - 1)
           /\ (op' = "vl_move_down" /\ p >= 1 /\ p < Len(view_layers))
                  => SortedNames(view_layers') = Exchanged(SortedNames(view_layers), p, p + 1)]_vars

\* C14: once ensure_unique_sort_orders has run, which the move operators do
\* first, no two view layers have the same sort order.
C14_SortOrdersUniqueAfterEnsure ==
    op \in MoveOperators => \A i, j \in 1..Len(view_layers) :
        i # j => view_layers[i].qq_render_sort_order # view_layers[j].qq_render_sort_order

\* a cancelled move that found equal sort orders: all it did was to renumber
C14_Witness ==
    /\ op \in MoveOperators
    /\ result = "CANCELLED"
    /\ initialized
    /\ Len(view_layers) = 3

\* C15: from pairwise distinct sort orders, the list operators keep the sort
\* orders pairwise distinct and the scene non-empty, and vl_list_add gives the
\* new layer the previous maximum plus one, which puts it last.
C15_ListKeepsOrdersDistinct ==
    /\ [](Len(view_layers) >= 1 /\ ~HasDuplicateOrders(view_layers))
    /\ [][op' = "vl_list_add" =>
            LET new_order == view_layers'[Len(view_layers')].qq_render_sort_order
            IN  /\ Len(view_layers') = Len(view_layers) + 1
                /\ \A i \in 1..Len(view_layers) : view_layers[i].qq_render_sort_order < new_order
                /\ \E i \in 1..Len(view_layers) : view_layers[i].qq_render_sort_order + 1 = new_order
                /\ SortedNames(view_layers')[Len(view_layers')] = view_layers'[Len(view_layers')].name]_vars

\* a layer added after the orders had got a gap
C15_Witness ==
    /\ op = "vl_list_add"
    /\ result = "FINISHED"
    /\ {view_layers[i].qq_render_sort_order : i \in 1..Len(view_layers)} = {0, 2, 3}

\* C16: a move that returns CANCELLED has changed no sort order.
C16_CancelledMoveChangesNothing ==
    [][(op' \in MoveOperators /\ result' = "CANCELLED")
           => SortOrders(view_layers') = SortOrders(view_layers)]_vars

(***************************************************************************)
(* The renderable list and the layers of the composite                     *)
(***************************************************************************)
\* layer a comes before layer b: lower sort order, or the same and earlier in the scene
Before(a, b) ==
    \/ view_layers[a].qq_render_sort_order < view_layers[b].qq_render_sort_order
    \/ /\ view_layers[a].qq_render_sort_order = view_layers[b].qq_render_sort_order
       /\ a < b

\* the names of the layers of S, ordered by Before
NamesInOrder(S) ==
    [k \in 1..Cardinality(S) |->
        view_layers[CHOOSE j \in S : Cardinality({i \in S : Before(i, j)}) = k - 1].name]

\* the layers of the Render Layers nodes this run created, in creation order,
\* which is the order of the list get_renderable_view_layers returned
CreatedLayers ==
    [k \in 1..Cardinality(CreatedOfType("R_LAYERS")) |-> nodes[Nth(CreatedOfType("R_LAYERS"), k)].layer]

\* C13: get_renderable_view_layers returns the layers whose use flag is on,
\* each once, by ascending sort order, equal orders in scene order, and it
\* changes no view layer.
C13_RenderableLayersSorted ==
    /\ [](op = "generate_nodes" =>
            /\ result = "CANCELLED" <=> Renderable = {}
            /\ result = "FINISHED" => CreatedLayers = NamesInOrder(Renderable))
    /\ [][op' = "generate_nodes" => view_layers' = view_layers]_vars

\* two layers render and the later one in the scene has the lower sort order
C13_Witness ==
    /\ GenerateFinished
    /\ Len(view_layers) = 2
    /\ Renderable = {1, 2}
    /\ view_layers[1].qq_render_sort_order > view_layers[2].qq_render_sort_order

\* the created nodes that make up a composite
CompositeNodes ==
    CreatedOfType("COMPOSITE") \cup CreatedOfType("VIEWER") \cup CreatedOfType("IMAGE")
        \cup CreatedOfType("ALPHAOVER")

\* C17: the chain is fed by the layers that render and have use_composite
\* on, in the order of the renderable list; a layer that does not render
\* feeds nothing; without such a layer no node of a composite is created.
C17_CompositeTakesRenderedCompositeLayers ==
    GenerateFinished =>
        LET first == IF HasBackground THEN 1 ELSE 0
        IN  /\ CompositeLayers = {} => CompositeNodes = {}
            /\ CompositeLayers # {} =>
                   [k \in 1..(ChainInputs - first) |-> nodes[ChainSource(k - 1 + first).from_node].layer]
                       = NamesInOrder(CompositeLayers)
            /\ \A l \in links :
                   (l.to_node \in CompositeNodes /\ l.from_node \in CreatedOfType("R_LAYERS"))
                       => \E j \in CompositeLayers : view_layers[j].name = nodes[l.from_node].layer

\* a layer that has use_composite on but does not render, next to one that feeds the composite
C17_Witness ==
    /\ GenerateFinished
    /\ CompositeLayers # {}
    /\ CreatedOfType("COMPOSITE") # {}
    /\ \E j \in 1..Len(view_layers) : view_layers[j].qq_render_use_composite /\ ~view_layers[j].use

(***************************************************************************)
(* Rendering with confirmation and the camera export path                  *)
(***************************************************************************)
\* C11: when check_and_render is invoked on a saved project with the
\* compositor on and the resolved base path of a File Output node is on disk,
\* invoke starts no render but opens the overwrite dialog with the callback
\* qq_render.render_animation_execute; while that dialog is open a render
\* starts only by overwrite_confirm.execute.
C11_RenderWaitsForConfirmation ==
    /\ [][(/\ op' = "check_and_render"
           /\ popup = ""
           /\ filepath # <<>>
           /\ use_nodes
           /\ \E i \in 1..Len(nodes') :
                  /\ nodes'[i].type = "OUTPUT_FILE"
                  /\ Join(resolve_relative_path(filepath, nodes'[i].base_path)) \in disk)
              => /\ renders' = renders
                 /\ popup' = "qq_render.overwrite_confirm"
                 /\ qq_confirm_dialog'.callback_operator = "qq_render.render_animation_execute"]_vars
    /\ [][(popup = "qq_render.overwrite_confirm" /\ renders' # renders)
              => (op' = "overwrite_confirm" /\ renders' = renders + 1)]_vars

\* the render was started from the dialog, which an existing output had opened
C11_Witness ==
    /\ op = "overwrite_confirm"
    /\ result = "FINISHED"
    /\ renders = 1
    /\ qq_confirm_dialog.callback_operator = "qq_render.render_animation_execute"
    /\ \E i \in 1..Len(nodes) :
           /\ nodes[i].type = "OUTPUT_FILE"
           /\ Join(resolve_relative_path(filepath, nodes[i].base_path)) \in disk

\* C18: the camera export path check_and_render tests is the path the camera
\* export writes the Alembic file to.
C18_CheckedCameraPathIsExportPath ==
    (camera_path # <<>> /\ export_path # <<>>) => camera_path = RealPath(export_path)

(***************************************************************************)
(* The base path of a File Output node                                     *)
(***************************************************************************)
\* the first place a version token starts: "v" or "V" and a digit after it; 0 for none
TokenStart(p) ==
    LET starts == {i \in 1..(Len(p) - 1) : p[i] \in {"v", "V"} /\ p[i + 1] \in Digits}
    IN  IF starts = {} THEN 0 ELSE CHOOSE i \in starts : \A j \in starts : i <= j

\* the last place of the token that starts at i: up to three digits belong to it
TokenEnd(p, i) ==
    CHOOSE e \in (i + 1)..(i + 3) :
        /\ \A m \in (i + 1)..e : m <= Len(p) /\ p[m] \in Digits
        /\ e = i + 3 \/ e = Len(p) \/ p[e + 1] \notin Digits

\* the length of what is before place i, its trailing dots not counted
PrefixEnd(p, i) ==
    LET kept_places == {m \in 1..(i - 1) : p[m] # "."}
    IN  IF kept_places = {} THEN 0 ELSE CHOOSE m \in kept_places : \A k \in kept_places : k <= m

ExpectedStem(p, layer) ==
    IF TokenStart(p) = 0 THEN Join(p) \o ".l." \o layer
    ELSE Join(SubSeq(p, 1, PrefixEnd(p, TokenStart(p)))) \o ".l." \o layer \o "."
             \o Join(SubSeq(p, TokenStart(p), TokenEnd(p, TokenStart(p))))
             \o Join(SubSeq(p, TokenEnd(p, TokenStart(p)) + 1, Len(p)))

AllFileOutputNodes == {i \in 1..Len(nodes) : nodes[i].type = "OUTPUT_FILE"}

\* C19: the base path of the File Output node of a layer is
\* "//../render/render_master/" stem "/" stem ".####.exr", where stem puts
\* ".l." and the layer name before the first version token of the project
\* name (after its prefix without trailing dots) or, without a token, after
\* the project name; the nodes of two layers never have the same base path.
C19_BasePathInsertsLayerBeforeVersion ==
    (op \in {"generate_nodes", "update_output_paths"} /\ result = "FINISHED") =>
        /\ \A i \in AllFileOutputNodes :
               Join(nodes[i].base_path) =
                   "//../render/render_master/" \o ExpectedStem(ProjectName(filepath), nodes[i].name)
                       \o "/" \o ExpectedStem(ProjectName(filepath), nodes[i].name) \o ".####.exr"
        /\ \A i, j \in AllFileOutputNodes :
               nodes[i].name # nodes[j].name => Join(nodes[i].base_path) # Join(nodes[j].base_path)

\* project "a.V" and ARABIC-INDIC DIGIT THREE: a dot before the token, which
\* has a capital V and a digit outside ASCII
C19_Witness ==
    /\ GenerateFinished
    /\ ProjectName(filepath) = <<"a", ".", "V", "U+0663">>
    /\ Cardinality(AllFileOutputNodes) = 2
    /\ \E i \in AllFileOutputNodes : Join(nodes[i].base_path) =
                                          "//../render/render_master/a.l.bg.VU+0663/a.l.bg.VU+0663.####.exr"

====
